---- MODULE Spec2Model ----
(***************************************************************************)
(* TinyLang: the tree-walking evaluator (execute / evalExpr / run), the    *)
(* assignment-target serialisation of the parser, and the helpers they     *)
(* use.  An AST node is a record whose field k names the node's class; a   *)
(* Value is the evaluator's four-payload struct; an exception is recorded  *)
(* in the field error of the environment and ends the run.                 *)
(*                                                                         *)
(* A double is represented in tenths (FloatUnit), a char by its code.      *)
(*                                                                         *)
(* The front end is modelled beside it, each part under a specification of *)
(* its own: the expression parser (ParseSpec), the lexer (LexSpec) and the *)
(* import processing of main (ImportSpec).  ScopeSpec applies the stores   *)
(* of the scoped variables at every depth of call.                         *)
(***************************************************************************)
EXTENDS Integers, Sequences, FiniteSets, TLC

VARIABLES statements, pass, idx,
          variables_stack, float_variables_stack, char_variables_stack,
          string_variables_stack, functions, class_defs, objects,
          object_arrays, int_arrays, output, error, stdin,
          parser, lexer, loader

\* the evaluator's variables and the front end's
runVars == <<statements, pass, idx, variables_stack, float_variables_stack,
             char_variables_stack, string_variables_stack, functions, class_defs,
             objects, object_arrays, int_arrays, output, error, stdin>>
vars == <<runVars, parser, lexer, loader>>

(***************************************************************************)
(* Bounds                                                                  *)
(***************************************************************************)
\* largest array index a serialised target is searched for
MaxIndex == 6

\* tenths per unit of a double
FloatUnit == 10

EmptyMap == [n \in {} |-> 0]

\* a part of the front end that is not running
NoParser == [tokens |-> << >>, current |-> 0, expr |-> [k |-> "nullptr"],
             statements |-> << >>, g_class_names |-> {},
             error |-> "", done |-> TRUE]
NoLexer == [input |-> << >>, i |-> 0, line |-> 1, col |-> 1, tokens |-> << >>,
            cerr |-> << >>, error |-> "", done |-> TRUE]
NoLoader == [files |-> EmptyMap, normalises |-> FALSE, imported_files |-> {},
             stack |-> << >>, statements |-> << >>, error |-> "", done |-> TRUE]

(***************************************************************************)
(* Value (struct Value and its four constructors)                          *)
(***************************************************************************)
IntV(v) == [type |-> "INT", i |-> v, f |-> 0, c |-> 0, s |-> ""]
FloatV(v) == [type |-> "FLOAT", i |-> 0, f |-> v, c |-> 0, s |-> ""]
CharV(v) == [type |-> "CHAR", i |-> 0, f |-> 0, c |-> v, s |-> ""]
StringV(str) == [type |-> "STRING", i |-> 0, f |-> 0, c |-> 0, s |-> str]

(***************************************************************************)
(* AST nodes                                                               *)
(***************************************************************************)
NULL == [k |-> "nullptr"]
Number(v) == [k |-> "Number", value |-> v]
FloatLiteral(v) == [k |-> "FloatLiteral", value |-> v]
CharLiteral(v) == [k |-> "CharLiteral", value |-> v]
BoolLiteral(v) == [k |-> "BoolLiteral", value |-> v]
StringLiteral(v) == [k |-> "StringLiteral", value |-> v]
Variable(n) == [k |-> "Variable", name |-> n]
UnaryExpr(o, operand) == [k |-> "UnaryExpr", op |-> o, operand |-> operand]
BinaryExpr(l, o, r) == [k |-> "BinaryExpr", left |-> l, op |-> o, right |-> r]
InputExpr == [k |-> "InputExpr"]
CallExpr(name, args) == [k |-> "CallExpr", callee |-> name, arguments |-> args]
ArrayAccess(name, index) == [k |-> "ArrayAccess", arrayName |-> name, index |-> index]
ArrayLiteral(elems) == [k |-> "ArrayLiteral", elements |-> elems]
ObjectMemberAccess(obj, mem) == [k |-> "ObjectMemberAccess", object |-> obj, member |-> mem]
ObjectMethodCall(obj, m, args) ==
    [k |-> "ObjectMethodCall", object |-> obj, method |-> m, arguments |-> args]

Assignment(n, v, t) == [k |-> "Assignment", name |-> n, value |-> v, type |-> t]
PrintStmt(v) == [k |-> "Print", value |-> v]
FunctionDef(name, params, body) ==
    [k |-> "FunctionDef", name |-> name, parameters |-> params, body |-> body]
Return(v) == [k |-> "Return", value |-> v]
IfStatement(cond, thenB, elseB) ==
    [k |-> "IfStatement", condition |-> cond, thenBranch |-> thenB, elseBranch |-> elseB]
WhileStatement(cond, body) == [k |-> "WhileStatement", condition |-> cond, body |-> body]
ForStatement(init, cond, incr, body) ==
    [k |-> "ForStatement", initializer |-> init, condition |-> cond,
     increment |-> incr, body |-> body]
ExprStatement(e) == [k |-> "ExprStatement", expr |-> e]
ArrayAssignment(name, index, val) ==
    [k |-> "ArrayAssignment", arrayName |-> name, index |-> index, value |-> val]
ClassDef(n, base, f, m) ==
    [k |-> "ClassDef", name |-> n, baseClass |-> base, fields |-> f, methods |-> m]
ObjectInstantiation(cls, var, args) ==
    [k |-> "ObjectInstantiation", className |-> cls, varName |-> var, arguments |-> args]

(***************************************************************************)
(* std::to_string(int)                                                     *)
(***************************************************************************)
Digit(d) ==
    CASE d = 0 -> "0" [] d = 1 -> "1" [] d = 2 -> "2" [] d = 3 -> "3"
      [] d = 4 -> "4" [] d = 5 -> "5" [] d = 6 -> "6" [] d = 7 -> "7"
      [] d = 8 -> "8" [] OTHER -> "9"

RECURSIVE to_string(_)
to_string(n) ==
    IF n < 0 THEN "-" \o to_string(0 - n)
    ELSE IF n < 10 THEN Digit(n)
    ELSE to_string(n \div 10) \o Digit(n % 10)

(***************************************************************************)
(* The interpreter's globals as one record, and exceptions                 *)
(***************************************************************************)
Env == [variables_stack |-> variables_stack,
        float_variables_stack |-> float_variables_stack,
        char_variables_stack |-> char_variables_stack,
        string_variables_stack |-> string_variables_stack,
        functions |-> functions, class_defs |-> class_defs,
        objects |-> objects, object_arrays |-> object_arrays,
        int_arrays |-> int_arrays, output |-> output, error |-> error,
        stdin |-> stdin]

InitialEnv == [variables_stack |-> <<EmptyMap>>,
               float_variables_stack |-> <<EmptyMap>>,
               char_variables_stack |-> <<EmptyMap>>,
               string_variables_stack |-> <<EmptyMap>>,
               functions |-> EmptyMap, class_defs |-> EmptyMap,
               objects |-> EmptyMap, object_arrays |-> EmptyMap,
               int_arrays |-> EmptyMap, output |-> << >>, error |-> "",
               stdin |-> <<7>>]

\* a thrown exception: nothing in the evaluator catches it, the run ends
Throw(env, msg) == [env EXCEPT !.error = msg]
Failed(env) == env.error # ""
\* the pair (environment after, value) an evaluation yields
R(env, v) == [env |-> env, v |-> v]

Put(map, n, v) == (n :> v) @@ map

(***************************************************************************)
(* Scoped variables                                                        *)
(***************************************************************************)
\* index of the innermost frame of a stack that holds name, 0 if none
FrameOf(stack, name) ==
    IF \E j \in 1..Len(stack) : name \in DOMAIN stack[j]
    THEN CHOOSE j \in 1..Len(stack) :
            /\ name \in DOMAIN stack[j]
            /\ \A h \in (j + 1)..Len(stack) : name \notin DOMAIN stack[h]
    ELSE 0

\* write-through store used by the float, char and string domains
SetThrough_top(stack, name, value) == [stack EXCEPT ![Len(stack)] = Put(@, name, value)]
SetThrough(stack, name, value) ==
    IF FrameOf(stack, name) # 0
    THEN [stack EXCEPT ![FrameOf(stack, name)] = Put(@, name, value)]
    ELSE [stack EXCEPT ![Len(stack)] = Put(@, name, value)]

hasIntVar(env, name) == FrameOf(env.variables_stack, name) # 0
getIntVar(env, name) ==
    env.variables_stack[FrameOf(env.variables_stack, name)][name]

setIntVar_through(env, name, value) ==
    [env EXCEPT !.variables_stack = SetThrough(@, name, value)]
setIntVar(env, name, value) ==
    [env EXCEPT !.variables_stack[Len(env.variables_stack)] = Put(@, name, value)]

hasFloatVar(env, name) == FrameOf(env.float_variables_stack, name) # 0
getFloatVar(env, name) ==
    env.float_variables_stack[FrameOf(env.float_variables_stack, name)][name]
setFloatVar(env, name, value) ==
    [env EXCEPT !.float_variables_stack = SetThrough(@, name, value)]

hasCharVar(env, name) == FrameOf(env.char_variables_stack, name) # 0
getCharVar(env, name) ==
    env.char_variables_stack[FrameOf(env.char_variables_stack, name)][name]
setCharVar(env, name, value) ==
    [env EXCEPT !.char_variables_stack = SetThrough(@, name, value)]

hasStringVar(env, name) == FrameOf(env.string_variables_stack, name) # 0
getStringVar(env, name) ==
    env.string_variables_stack[FrameOf(env.string_variables_stack, name)][name]
setStringVar(env, name, value) ==
    [env EXCEPT !.string_variables_stack = SetThrough(@, name, value)]

\* store a Value in the stack its tag selects (the four-way dispatch used
\* for parameters and for the fallback store)
storeByTag(env, name, val) ==
    IF val.type = "FLOAT" THEN setFloatVar(env, name, val.f)
    ELSE IF val.type = "CHAR" THEN setCharVar(env, name, val.c)
    ELSE IF val.type = "STRING" THEN setStringVar(env, name, val.s)
    ELSE setIntVar(env, name, val.i)

\* Variable: the four probes in order, each exception swallowed
evalVariable_floatFirst(env, name) ==
    IF hasFloatVar(env, name) THEN R(env, FloatV(getFloatVar(env, name)))
    ELSE IF hasIntVar(env, name) THEN R(env, IntV(getIntVar(env, name)))
    ELSE IF hasCharVar(env, name) THEN R(env, CharV(getCharVar(env, name)))
    ELSE IF hasStringVar(env, name) THEN R(env, StringV(getStringVar(env, name)))
    ELSE R(Throw(env, "Undefined variable: " \o name), IntV(0))
evalVariable(env, name) ==
    IF hasIntVar(env, name) THEN R(env, IntV(getIntVar(env, name)))
    ELSE IF hasFloatVar(env, name) THEN R(env, FloatV(getFloatVar(env, name)))
    ELSE IF hasCharVar(env, name) THEN R(env, CharV(getCharVar(env, name)))
    ELSE IF hasStringVar(env, name) THEN R(env, StringV(getStringVar(env, name)))
    ELSE R(Throw(env, "Undefined variable: " \o name), IntV(0))

pushScopes(env) ==
    [env EXCEPT !.variables_stack = Append(@, EmptyMap),
                !.float_variables_stack = Append(@, EmptyMap),
                !.char_variables_stack = Append(@, EmptyMap),
                !.string_variables_stack = Append(@, EmptyMap)]

PopBack_front(stack) == IF Len(stack) > 1 THEN Tail(stack) ELSE stack
PopBack(stack) == IF Len(stack) > 1 THEN SubSeq(stack, 1, Len(stack) - 1) ELSE stack
popScopes(env) ==
    [env EXCEPT !.variables_stack = PopBack(@),
                !.float_variables_stack = PopBack(@),
                !.char_variables_stack = PopBack(@),
                !.string_variables_stack = PopBack(@)]

(***************************************************************************)
(* Names the programs of the model use, and the two string searches of     *)
(* the evaluator (find('.'), find('[') ... find(']')) as searches over     *)
(* them                                                                    *)
(***************************************************************************)
Idents == {"x", "y", "v", "w", "i", "a", "b", "c", "p", "q", "s", "t", "f", "g",
           "m", "show", "init", "A", "B", "C", "D", "P", "arr"}

Indexed(arrName, i) == arrName \o "[" \o to_string(i) \o "]"

\* objName = arrName "[" digits "]": the (arrName, index) it splits into
ProxyParts(objName) ==
    {pr \in Idents \X (0..MaxIndex) : objName = Indexed(pr[1], pr[2])}
isProxy(objName) == ProxyParts(objName) # {}
proxyArray(objName) == (CHOOSE pr \in ProxyParts(objName) : TRUE)[1]
proxyIndex(objName) == (CHOOSE pr \in ProxyParts(objName) : TRUE)[2]

ObjTargets == Idents \cup {Indexed(pr[1], pr[2]) : pr \in Idents \X (0..MaxIndex)}
\* name = objName "." fieldName: the (objName, fieldName) it splits into
DotParts(name) == {pr \in ObjTargets \X Idents : name = pr[1] \o "." \o pr[2]}
hasDot(name) == DotParts(name) # {}
dotObject(name) == (CHOOSE pr \in DotParts(name) : TRUE)[1]
dotField(name) == (CHOOSE pr \in DotParts(name) : TRUE)[2]

\* type = className "[]"
ArrayTypeOf(type) == {c \in Idents : type = c \o "[]"}
isObjectArrayType(type) == ArrayTypeOf(type) # {}
elementClass(type) == CHOOSE c \in ArrayTypeOf(type) : TRUE

(***************************************************************************)
(* Parser: serialisation of an assignment target (parseStatement)          *)
(***************************************************************************)
ParseError(what) == [k |-> "ParseError", what |-> what]

RECURSIVE targetChain(_)
\* the chain walk over an ObjectMemberAccess target: [ok, text]
targetChain(cur) ==
    IF cur.object.k = "Variable"
    THEN [ok |-> TRUE, text |-> cur.object.name \o "." \o cur.member]
    ELSE IF cur.object.k = "ArrayAccess" THEN
        IF cur.object.index.k = "Number"
        THEN [ok |-> TRUE,
              text |-> Indexed(cur.object.arrayName, cur.object.index.value)
                          \o "." \o cur.member]
        ELSE [ok |-> FALSE,
              text |-> "Only constant indices supported in assignment target"]
    ELSE IF cur.object.k = "ObjectMemberAccess" THEN
        LET inner == targetChain(cur.object)
        IN IF inner.ok THEN [ok |-> TRUE, text |-> inner.text \o "." \o cur.member]
           ELSE inner
    ELSE [ok |-> FALSE, text |-> "Unsupported assignment target"]

\* the Assignment node built for  lhs = expr;  or a parse error
parseAssignmentTarget(lhs, expr) ==
    IF lhs.k = "Variable" THEN Assignment(lhs.name, expr, "")
    ELSE IF lhs.k = "ObjectMemberAccess" THEN
        IF targetChain(lhs).ok THEN Assignment(targetChain(lhs).text, expr, "")
        ELSE ParseError(targetChain(lhs).text)
    ELSE IF lhs.k = "ArrayAccess" THEN
        IF lhs.index.k = "Number"
        THEN Assignment(Indexed(lhs.arrayName, lhs.index.value), expr, "")
        ELSE Assignment(lhs.arrayName \o "[?]", expr, "")
    ELSE ParseError("Unsupported assignment target")

(***************************************************************************)
(* Inheritance resolution                                                  *)
(***************************************************************************)
RECURSIVE mergeFields(_, _, _)
\* the loop of collectFields over classDef->fields, from position j
mergeFields(outFields, fields, j) ==
    IF j > Len(fields) THEN outFields
    ELSE LET field == fields[j]
             hits == {h \in 1..Len(outFields) : outFields[h][2] = field[2]}
         IN IF hits # {}
            THEN mergeFields([outFields EXCEPT
                      ![CHOOSE h \in hits : \A g \in hits : h <= g] = field],
                      fields, j + 1)
            ELSE mergeFields(Append(outFields, field), fields, j + 1)

RECURSIVE collectFields(_, _, _)
\* [error, out]: out is outFields after the call
collectFields(env, classDef, outFields) ==
    LET base == IF classDef.baseClass # ""
                THEN IF classDef.baseClass \notin DOMAIN env.class_defs
                     THEN [error |-> "Base class not found: " \o classDef.baseClass,
                           out |-> outFields]
                     ELSE collectFields(env, env.class_defs[classDef.baseClass],
                                        outFields)
                ELSE [error |-> "", out |-> outFields]
    IN IF base.error # "" THEN base
       ELSE [error |-> "", out |-> mergeFields(base.out, classDef.fields, 1)]

RECURSIVE mergeMethods_append(_, _, _)
mergeMethods_append(outMethods, methods, j) ==
    IF j > Len(methods) THEN outMethods
    ELSE mergeMethods_append(Append(outMethods, methods[j]), methods, j + 1)

RECURSIVE mergeMethods(_, _, _)
\* the loop of collectMethods over classDef->methods, from position j
mergeMethods(outMethods, methods, j) ==
    IF j > Len(methods) THEN outMethods
    ELSE LET method == methods[j]
             hits == {h \in 1..Len(outMethods) : outMethods[h].name = method.name}
         IN IF hits # {}
            THEN mergeMethods([outMethods EXCEPT
                      ![CHOOSE h \in hits : \A g \in hits : h <= g] = method],
                      methods, j + 1)
            ELSE mergeMethods(Append(outMethods, method), methods, j + 1)

RECURSIVE collectMethods(_, _, _)
collectMethods(env, classDef, outMethods) ==
    LET base == IF classDef.baseClass # ""
                THEN IF classDef.baseClass \notin DOMAIN env.class_defs
                     THEN [error |-> "Base class not found: " \o classDef.baseClass,
                           out |-> outMethods]
                     ELSE collectMethods(env, env.class_defs[classDef.baseClass],
                                         outMethods)
                ELSE [error |-> "", out |-> outMethods]
    IN IF base.error # "" THEN base
       ELSE [error |-> "", out |-> mergeMethods(base.out, classDef.methods, 1)]

\* the first entry of allMethods named name (0 if none): the lookup loops
findMethod(allMethods, name) ==
    LET hits == {h \in 1..Len(allMethods) : allMethods[h].name = name}
    IN IF hits = {} THEN 0 ELSE CHOOSE h \in hits : \A g \in hits : h <= g

(***************************************************************************)
(* Object instances                                                        *)
(***************************************************************************)
PrimTypes == {"int", "float", "char", "string", "bool"}
defaultField(type) ==
    CASE type = "int" -> IntV(0)
      [] type = "float" -> FloatV(0)
      [] type = "char" -> CharV(0)
      [] type = "string" -> StringV("")
      [] OTHER -> IntV(0)

\* the field map the default-initialisation loops build from a (type, name) list
defaultFields(fieldList) ==
    LET known == {j \in 1..Len(fieldList) : fieldList[j][1] \in PrimTypes}
        last(n) == CHOOSE j \in known :
                      /\ fieldList[j][2] = n
                      /\ \A h \in known : fieldList[h][2] = n => h <= j
    IN [n \in {fieldList[j][2] : j \in known} |-> defaultField(fieldList[last(n)][1])]

ObjectInstance(cls, fields) == [className |-> cls, fields |-> fields]

RECURSIVE mirrorFields(_, _, _)
\* "Set up fields as locals": one store per field of the receiver
mirrorFields(env, fields, todo) ==
    IF todo = {} THEN env
    ELSE LET n == CHOOSE m \in todo : TRUE
         IN mirrorFields(storeByTag(env, n, fields[n]), fields, todo \ {n})

Top(stack) == stack[Len(stack)]
\* the value the write-back loops pick for fname, by the order of their tests
writeBackHas(env, fname) ==
    \/ fname \in DOMAIN Top(env.string_variables_stack)
    \/ fname \in DOMAIN Top(env.variables_stack)
    \/ fname \in DOMAIN Top(env.float_variables_stack)
    \/ fname \in DOMAIN Top(env.char_variables_stack)
writeBackValue(env, fname) ==
    IF fname \in DOMAIN Top(env.string_variables_stack)
    THEN StringV(Top(env.string_variables_stack)[fname])
    ELSE IF fname \in DOMAIN Top(env.variables_stack)
    THEN IntV(Top(env.variables_stack)[fname])
    ELSE IF fname \in DOMAIN Top(env.float_variables_stack)
    THEN FloatV(Top(env.float_variables_stack)[fname])
    ELSE CharV(Top(env.char_variables_stack)[fname])

\* fields after "Update fields from local scope", over the names in fnames
writeBack(env, fields, fnames) ==
    [n \in DOMAIN fields \cup {m \in fnames : writeBackHas(env, m)} |->
        IF n \in fnames /\ writeBackHas(env, n) THEN writeBackValue(env, n)
        ELSE fields[n]]

ownFieldNames(classDef) == {classDef.fields[j][2] : j \in 1..Len(classDef.fields)}

(***************************************************************************)
(* evalExpr                                                                *)
(***************************************************************************)
B01(b) == IF b THEN 1 ELSE 0
Abs(z) == IF z < 0 THEN 0 - z ELSE z
\* C++ integer division (truncates towards zero), r # 0
TruncDiv(l, r) ==
    IF (l >= 0) = (r > 0) THEN Abs(l) \div Abs(r) ELSE 0 - (Abs(l) \div Abs(r))

\* "if (left.i == 0) return Value(0)" and "if (left.i != 0) return Value(1)"
andShortCircuits_never(left) == FALSE
andShortCircuits(left) == left.i = 0
orShortCircuits_never(left) == FALSE
orShortCircuits(left) == left.i # 0

\* "returnValue = evalExpr(ret->value.get()).i" into "int returnValue"
returnValueOf(v) == v.i

\* the arithmetic and comparison part of BinaryExpr, both sides evaluated
binaryOp(env, op, left, right) ==
    IF op = "PLUS" /\ (left.type = "STRING" \/ right.type = "STRING") THEN
        LET lstr == IF left.type = "STRING" THEN left.s ELSE to_string(left.i)
            rstr == IF right.type = "STRING" THEN right.s ELSE to_string(right.i)
        IN R(env, StringV(lstr \o rstr))
    ELSE IF left.type = "FLOAT" \/ right.type = "FLOAT" THEN
        LET l == IF left.type = "FLOAT" THEN left.f ELSE left.i * FloatUnit
            r == IF right.type = "FLOAT" THEN right.f ELSE right.i * FloatUnit
        IN CASE op = "PLUS" -> R(env, FloatV(l + r))
             [] op = "MINUS" -> R(env, FloatV(l - r))
             [] op = "MULTIPLICATION" -> R(env, FloatV(TruncDiv(l * r, FloatUnit)))
             [] op = "DIVISION" ->
                    IF r = 0 THEN R(Throw(env, "Division by zero"), IntV(0))
                    ELSE R(env, FloatV(TruncDiv(l * FloatUnit, r)))
             [] op = "GREATERTHEN" -> R(env, IntV(B01(l > r)))
             [] op = "LESSTHEN" -> R(env, IntV(B01(l < r)))
             [] op = "EQUALTO" -> R(env, IntV(B01(l = r)))
             [] op = "NOTEQUALTO" -> R(env, IntV(B01(l # r)))
             [] OTHER -> R(Throw(env, "Unsupported binary operator"), IntV(0))
    ELSE IF left.type = "CHAR" /\ right.type = "CHAR" THEN
        CASE op = "EQUALTO" -> R(env, IntV(B01(left.c = right.c)))
          [] op = "NOTEQUALTO" -> R(env, IntV(B01(left.c # right.c)))
          [] OTHER -> R(Throw(env, "Unsupported binary operator for char"), IntV(0))
    ELSE
        LET l == IF left.type = "INT" THEN left.i ELSE left.c
            r == IF right.type = "INT" THEN right.i ELSE right.c
        IN CASE op = "PLUS" -> R(env, IntV(l + r))
             [] op = "MINUS" -> R(env, IntV(l - r))
             [] op = "MULTIPLICATION" -> R(env, IntV(l * r))
             [] op = "DIVISION" ->
                    IF r = 0 THEN R(Throw(env, "Division by zero"), IntV(0))
                    ELSE R(env, IntV(TruncDiv(l, r)))
             [] op = "GREATERTHEN" -> R(env, IntV(B01(l > r)))
             [] op = "LESSTHEN" -> R(env, IntV(B01(l < r)))
             [] op = "EQUALTO" -> R(env, IntV(B01(l = r)))
             [] op = "NOTEQUALTO" -> R(env, IntV(B01(l # r)))
             [] OTHER -> R(Throw(env, "Unsupported binary operator"), IntV(0))

\* "std::cin >> val": the next integer of stdin, 0 when there is none
evalInput(env) ==
    IF env.stdin = << >> THEN R(env, IntV(0))
    ELSE R([env EXCEPT !.stdin = Tail(@)], IntV(Head(env.stdin)))

\* field read shared by the two ObjectMemberAccess paths
readField(env, inst, member, missing) ==
    IF member \in DOMAIN inst.fields THEN R(env, inst.fields[member])
    ELSE R(Throw(env, missing), IntV(0))

\* vector::at
InRange(vec, index) == index >= 0 /\ index < Len(vec)

\* the one element of a singleton set.  The({e(x) : x \in {v}}) is e with x
\* naming the value v: v is the result of an evaluation, and the e of every
\* use starts by letting an exception that evaluation threw propagate.
The(S) == CHOOSE v \in S : TRUE

RECURSIVE evalExpr(_, _)
RECURSIVE execute(_, _)
RECURSIVE executeAll(_, _, _)
RECURSIVE bindArguments(_, _, _, _)
RECURSIVE runBody(_, _, _)
RECURSIVE whileLoop(_, _)
RECURSIVE forLoop(_, _)

\* the loop "Set up parameters": each argument is evaluated after the push
bindArguments(arguments, parameters, j, env) ==
    IF j > Len(arguments) THEN env
    ELSE The({IF Failed(arg.env) THEN arg.env
              ELSE bindArguments(arguments, parameters, j + 1,
                                       storeByTag(arg.env, parameters[j], arg.v)) :
              arg \in {evalExpr(arguments[j], env)}})

\* the body loop of a call: a Return that is an element of the body ends it
runBody(body, j, env) ==
    IF j > Len(body) THEN R(env, IntV(0))
    ELSE IF body[j].k = "Return"
    THEN The({IF Failed(ret.env) THEN ret
              ELSE R(ret.env, IntV(returnValueOf(ret.v))) :
              ret \in {evalExpr(body[j].value, env)}})
    ELSE The({IF Failed(after) THEN R(after, IntV(0))
              ELSE runBody(body, j + 1, after) :
              after \in {execute(body[j], env)}})

\* CallExpr
evalCall(call, env) ==
    IF call.callee \notin DOMAIN env.functions
    THEN R(Throw(env, "Undefined function: " \o call.callee), IntV(0))
    ELSE IF Len(call.arguments) # Len(env.functions[call.callee].parameters)
    THEN R(Throw(env, "Argument count mismatch in call to " \o call.callee), IntV(0))
    ELSE The({IF Failed(bound) THEN R(bound, IntV(0))
              ELSE The({IF Failed(done.env) THEN done
                     ELSE R(popScopes(done.env), done.v) :
                     done \in {runBody(env.functions[call.callee].body, 1, bound)}}) :
              bound \in {bindArguments(call.arguments,
                         env.functions[call.callee].parameters, 1,
                         pushScopes(env))}})

\* push, mirror, bind and body of a call of method on the instance inst
enterMethod(env, inst, method, arguments) ==
    The({IF Failed(bound) THEN R(bound, IntV(0))
         ELSE runBody(method.body, 1, bound) :
         bound \in {bindArguments(arguments, method.parameters, 1,
                    mirrorFields(pushScopes(env), inst.fields,
                    DOMAIN inst.fields))}})

\* method lookup and arity check, then the call; the write-back and the pop
\* are the caller's
invokeMethod(env, inst, objMethod) ==
    IF inst.className \notin DOMAIN env.class_defs
    THEN R(Throw(env, "Class not found: " \o inst.className), IntV(0))
    ELSE LET all == collectMethods(env, env.class_defs[inst.className], << >>)
             h == findMethod(all.out, objMethod.method)
         IN IF all.error # "" THEN R(Throw(env, all.error), IntV(0))
            ELSE IF h = 0
            THEN R(Throw(env, "Method not found: " \o objMethod.method
                                 \o " in class " \o inst.className), IntV(0))
            ELSE IF Len(objMethod.arguments) # Len(all.out[h].parameters)
            THEN R(Throw(env, "Argument count mismatch in call to method "
                                 \o objMethod.method), IntV(0))
            ELSE enterMethod(env, inst, all.out[h], objMethod.arguments)

\* method call on objects[objName]
callOnObject(env, objName, objMethod) ==
    IF objName \notin DOMAIN env.objects
    THEN R(Throw(env, "Undefined object: " \o objName), IntV(0))
    ELSE The({IF Failed(done.env) THEN done
              ELSE R(popScopes([done.env EXCEPT !.objects[objName].fields =
                                writeBack(done.env, @, DOMAIN @)]),
                  done.v) :
              done \in {invokeMethod(env, env.objects[objName], objMethod)}})

\* method call on object_arrays[arrName].at(index)
callOnElement(env, arrName, index, objMethod) ==
    IF arrName \notin DOMAIN env.object_arrays
    THEN R(Throw(env, "Undefined object array: " \o arrName), IntV(0))
    ELSE IF ~InRange(env.object_arrays[arrName], index)
    THEN R(Throw(env, "std::out_of_range"), IntV(0))
    ELSE The({IF Failed(done.env) THEN done
              ELSE R(popScopes([done.env EXCEPT
                        !.object_arrays[arrName][index + 1].fields =
                            writeBack(done.env, @,
                                ownFieldNames(done.env.class_defs[
                                    done.env.object_arrays[arrName][index + 1].className]))]),
                  done.v) :
              done \in {invokeMethod(env, env.object_arrays[arrName][index + 1], objMethod)}})

\* ArrayAccess on an object array: the proxy name of the element
objectArrayAccess(arrAccess, env) ==
    The({IF Failed(index.env) THEN index
         ELSE IF ~InRange(index.env.object_arrays[arrAccess.arrayName], index.v.i)
            THEN R(Throw(index.env, "Object array index out of bounds: "
                                     \o to_string(index.v.i)), IntV(0))
            ELSE R(index.env, StringV(Indexed(arrAccess.arrayName, index.v.i))) :
         index \in {evalExpr(arrAccess.index, env)}})

\* ArrayAccess on a primitive array
primitiveArrayAccess(arrAccess, env) ==
    The({IF Failed(index.env) THEN index
         ELSE IF arrAccess.arrayName \in DOMAIN index.env.int_arrays THEN
                IF ~InRange(index.env.int_arrays[arrAccess.arrayName], index.v.i)
                THEN R(Throw(index.env, "std::out_of_range"), IntV(0))
                ELSE R(index.env,
                       IntV(index.env.int_arrays[arrAccess.arrayName][index.v.i + 1]))
            ELSE R(Throw(index.env, "Undefined array: " \o arrAccess.arrayName), IntV(0)) :
         index \in {evalExpr(arrAccess.index, env)}})

\* ObjectMemberAccess
memberAccess(objAccess, env) ==
    IF objAccess.object.k # "Variable"
    THEN R(Throw(env, "Unsupported object member access"), IntV(0))
    ELSE IF isProxy(objAccess.object.name) THEN
        LET arrName == proxyArray(objAccess.object.name)
            index == proxyIndex(objAccess.object.name)
        IN IF arrName \notin DOMAIN env.object_arrays
           THEN R(Throw(env, "Undefined object array: " \o arrName), IntV(0))
           ELSE IF ~InRange(env.object_arrays[arrName], index)
           THEN R(Throw(env, "std::out_of_range"), IntV(0))
           ELSE readField(env, env.object_arrays[arrName][index + 1],
                          objAccess.member, "Field not found in object array element")
    ELSE IF objAccess.object.name \notin DOMAIN env.objects
    THEN R(Throw(env, "Undefined object: " \o objAccess.object.name), IntV(0))
    ELSE readField(env, env.objects[objAccess.object.name], objAccess.member,
                   "Method calls on objects not yet implemented")

\* ObjectMethodCall
methodCall(objMethod, env) ==
    IF objMethod.object.k = "Variable" THEN
        IF isProxy(objMethod.object.name)
        THEN callOnElement(env, proxyArray(objMethod.object.name),
                           proxyIndex(objMethod.object.name), objMethod)
        ELSE callOnObject(env, objMethod.object.name, objMethod)
    ELSE IF objMethod.object.k = "ArrayAccess" THEN
        The({IF Failed(idxVal.env) THEN idxVal
             ELSE callOnElement(idxVal.env, objMethod.object.arrayName,
                                          idxVal.v.i, objMethod) :
             idxVal \in {evalExpr(objMethod.object.index, env)}})
    ELSE R(Throw(env, "Unsupported object method call"), IntV(0))

evalExpr(expr, env) ==
    CASE expr.k = "Number" -> R(env, IntV(expr.value))
      [] expr.k = "FloatLiteral" -> R(env, FloatV(expr.value))
      [] expr.k = "CharLiteral" -> R(env, CharV(expr.value))
      [] expr.k = "BoolLiteral" -> R(env, IntV(B01(expr.value)))
      [] expr.k = "StringLiteral" -> R(env, StringV(expr.value))
      [] expr.k = "Variable" -> evalVariable(env, expr.name)
      [] expr.k = "UnaryExpr" ->
            The({IF Failed(operand.env) THEN operand
                 ELSE IF expr.op = "NOT" THEN R(operand.env, IntV(B01(operand.v.i = 0)))
                    ELSE R(Throw(operand.env, "Unsupported unary operator"), IntV(0)) :
                 operand \in {evalExpr(expr.operand, env)}})
      [] expr.k = "BinaryExpr" /\ expr.op = "AND" ->
            The({IF Failed(left.env) THEN left
                 ELSE IF andShortCircuits(left.v) THEN R(left.env, IntV(0))
                    ELSE The({IF Failed(right.env) THEN right
                              ELSE R(right.env, IntV(B01(left.v.i # 0 /\ right.v.i # 0))) :
                              right \in {evalExpr(expr.right, left.env)}}) :
                 left \in {evalExpr(expr.left, env)}})
      [] expr.k = "BinaryExpr" /\ expr.op = "OR" ->
            The({IF Failed(left.env) THEN left
                 ELSE IF orShortCircuits(left.v) THEN R(left.env, IntV(1))
                    ELSE The({IF Failed(right.env) THEN right
                              ELSE R(right.env, IntV(B01(left.v.i # 0 \/ right.v.i # 0))) :
                              right \in {evalExpr(expr.right, left.env)}}) :
                 left \in {evalExpr(expr.left, env)}})
      [] expr.k = "BinaryExpr" /\ expr.op \notin {"AND", "OR"} ->
            The({IF Failed(left.env) THEN left
                 ELSE The({IF Failed(right.env) THEN right
                         ELSE binaryOp(right.env, expr.op, left.v, right.v) :
                         right \in {evalExpr(expr.right, left.env)}}) :
                 left \in {evalExpr(expr.left, env)}})
      [] expr.k = "InputExpr" -> evalInput(env)
      [] expr.k = "CallExpr" -> evalCall(expr, env)
      [] expr.k = "ArrayAccess" ->
            IF expr.arrayName \in DOMAIN env.object_arrays
            THEN objectArrayAccess(expr, env)
            ELSE primitiveArrayAccess(expr, env)
      [] expr.k = "ArrayLiteral" ->
            R(Throw(env, "ArrayLiteral should not be evaluated directly"), IntV(0))
      [] expr.k = "ObjectMemberAccess" -> memberAccess(expr, env)
      [] expr.k = "ObjectMethodCall" -> methodCall(expr, env)
      [] OTHER -> R(Throw(env, "Unknown expression"), IntV(0))


(***************************************************************************)
(* execute                                                                 *)
(***************************************************************************)
executeAll(stmts, j, env) ==
    IF j > Len(stmts) THEN env
    ELSE The({IF Failed(after) THEN after
              ELSE executeAll(stmts, j + 1, after) :
              after \in {execute(stmts[j], env)}})

whileLoop(stmt, env) ==
    The({IF Failed(cond.env) THEN cond.env
         ELSE IF cond.v.i = 0 THEN cond.env
            ELSE The({IF Failed(after) THEN after
                      ELSE whileLoop(stmt, after) :
                      after \in {executeAll(stmt.body, 1, cond.env)}}) :
         cond \in {evalExpr(stmt.condition, env)}})

\* one round of the loop of ForStatement once its condition holds
forRound(stmt, env) ==
    The({IF Failed(body) THEN body
         ELSE IF stmt.increment = NULL THEN forLoop(stmt, body)
            ELSE The({IF Failed(incr) THEN incr
                      ELSE forLoop(stmt, incr) :
                      incr \in {execute(stmt.increment, body)}}) :
         body \in {executeAll(stmt.body, 1, env)}})

\* the while loop of ForStatement, after the initializer
forLoop(stmt, env) ==
    IF stmt.condition = NULL THEN forRound(stmt, env)
    ELSE The({IF Failed(cond.env) THEN cond.env
              ELSE IF cond.v.i = 0 THEN cond.env ELSE forRound(stmt, cond.env) :
              cond \in {evalExpr(stmt.condition, env)}})

\* vector::operator[] past the end in ArrayAssignment: undefined behaviour.
\* No statement ever inserts into int_arrays, so no run reaches it.
UncheckedWrite(env) == Throw(env, "undefined behaviour")

\* a null ClassDef* is dereferenced
NullClassDef(env) == Throw(env, "Segmentation fault")

\* "Object array declaration: type ends with []"
declareObjectArray(assign, env) ==
    The({IF Failed(size.env) THEN size.env
         ELSE IF size.v.i < 0 THEN Throw(size.env, "std::length_error")
            ELSE IF size.v.i > 0 /\ elementClass(assign.type) \notin DOMAIN size.env.class_defs
            THEN NullClassDef(size.env)
            ELSE [size.env EXCEPT !.object_arrays =
                    Put(@, assign.name,
                        [j \in 1..size.v.i |->
                            ObjectInstance(elementClass(assign.type),
                                defaultFields(size.env.class_defs[
                                    elementClass(assign.type)].fields))])] :
         size \in {evalExpr(assign.value, env)}})

\* "OBJECT INSTANTIATION FIRST": default instantiation  C x;
defaultInstantiate(assign, env) ==
    [env EXCEPT !.objects =
        Put(@, assign.name,
            ObjectInstance(assign.type,
                           defaultFields(env.class_defs[assign.type].fields)))]

\* "FIELD ASSIGNMENT" on an object array element:  arr[c].f = v
assignElementField(arrName, index, fieldName, value, env) ==
    IF arrName \notin DOMAIN env.object_arrays
    THEN Throw(env, "Undefined object array: " \o arrName)
    ELSE IF ~InRange(env.object_arrays[arrName], index)
    THEN Throw(env, "Object array index out of bounds: " \o to_string(index))
    ELSE The({IF Failed(val.env) THEN val.env
              ELSE [val.env EXCEPT !.object_arrays[arrName][index + 1].fields =
                             Put(@, fieldName, val.v)] :
              val \in {evalExpr(value, env)}})

\* "FIELD ASSIGNMENT":  obj.f = v  and  arr[c].f = v
assignField(assign, env) ==
    IF isProxy(dotObject(assign.name))
    THEN assignElementField(proxyArray(dotObject(assign.name)),
                            proxyIndex(dotObject(assign.name)),
                            dotField(assign.name), assign.value, env)
    ELSE IF dotObject(assign.name) \notin DOMAIN env.objects
    THEN Throw(env, "Undefined object: " \o dotObject(assign.name))
    ELSE The({IF Failed(val.env) THEN val.env
              ELSE [val.env EXCEPT !.objects[dotObject(assign.name)].fields =
                             Put(@, dotField(assign.name), val.v)] :
              val \in {evalExpr(assign.value, env)}})

\* "Primitive variable declarations with literals": the declared type and
\* the literal kind agree
isTypedLiteral(assign) ==
    /\ assign.type # ""
    /\ assign.value # NULL
    /\ \/ assign.type = "int" /\ assign.value.k = "Number"
       \/ assign.type = "float" /\ assign.value.k = "FloatLiteral"
       \/ assign.type = "char" /\ assign.value.k = "CharLiteral"
       \/ assign.type = "bool" /\ assign.value.k = "BoolLiteral"
       \/ assign.type = "string" /\ assign.value.k = "StringLiteral"

\* "Fallback: evaluate and assign" (and the typed-literal stores, which
\* store the same value in the same stack)
assignValue(assign, env) ==
    The({IF Failed(val.env) THEN val.env
         ELSE storeByTag(val.env, assign.name, val.v) :
         val \in {evalExpr(assign.value, env)}})

executeAssignment(assign, env) ==
    IF assign.type # "" /\ isObjectArrayType(assign.type) /\ assign.value # NULL
    THEN declareObjectArray(assign, env)
    ELSE IF assign.type \in DOMAIN env.class_defs /\ assign.value = NULL
    THEN defaultInstantiate(assign, env)
    ELSE IF hasDot(assign.name) THEN assignField(assign, env)
    ELSE IF isTypedLiteral(assign) THEN assignValue(assign, env)
    ELSE IF assign.value # NULL THEN assignValue(assign, env)
    ELSE env

\* the constructor call of ObjectInstantiation, on the created object
construct(objinst, ctor, created) ==
    The({IF Failed(bound) THEN bound
         ELSE The({IF Failed(body) THEN body
                 ELSE popScopes([body EXCEPT !.objects[objinst.varName].fields =
                        writeBack(body, @,
                            ownFieldNames(body.class_defs[objinst.className]))]) :
                 body \in {executeAll(ctor.body, 1, bound)}}) :
         bound \in {bindArguments(objinst.arguments, ctor.parameters, 1,
                    mirrorFields(pushScopes(created),
                    created.objects[objinst.varName].fields,
                    DOMAIN created.objects[objinst.varName].fields))}})

\* ObjectInstantiation:  C x(args);
instantiate(objinst, env) ==
    IF objinst.className \notin DOMAIN env.class_defs THEN NullClassDef(env)
    ELSE
    LET classDef == env.class_defs[objinst.className]
        allFields == collectFields(env, classDef, << >>)
        created == [env EXCEPT !.objects =
                       Put(@, objinst.varName,
                           ObjectInstance(objinst.className,
                                          defaultFields(allFields.out)))]
        allMethods == collectMethods(env, classDef, << >>)
        h == findMethod(allMethods.out, "init")
    IN IF allFields.error # "" THEN Throw(env, allFields.error)
       ELSE IF objinst.arguments = << >> THEN created
       ELSE IF allMethods.error # "" THEN Throw(created, allMethods.error)
       ELSE IF h = 0
       THEN Throw(created, "Constructor 'init' not found in class " \o objinst.className)
       ELSE IF Len(objinst.arguments) # Len(allMethods.out[h].parameters)
       THEN Throw(created, "Constructor argument count mismatch for class "
                              \o objinst.className)
       ELSE construct(objinst, allMethods.out[h], created)

\* ArrayAssignment
arrayAssign(arrAssign, env) ==
    The({IF Failed(index.env) THEN index.env
         ELSE The({IF Failed(value.env) THEN value.env
                 ELSE IF arrAssign.arrayName \notin DOMAIN value.env.int_arrays
                    THEN Throw(value.env, "Undefined array: " \o arrAssign.arrayName)
                    ELSE IF InRange(value.env.int_arrays[arrAssign.arrayName], index.v.i)
                    THEN [value.env EXCEPT
                            !.int_arrays[arrAssign.arrayName][index.v.i + 1] = value.v.i]
                    ELSE UncheckedWrite(value.env) :
                 value \in {evalExpr(arrAssign.value, index.env)}}) :
         index \in {evalExpr(arrAssign.index, env)}})

\* "functions[func->name] = func"
defineFunction_keep(env, func) ==
    IF func.name \in DOMAIN env.functions THEN env
    ELSE [env EXCEPT !.functions = Put(@, func.name, func)]
defineFunction(env, func) == [env EXCEPT !.functions = Put(@, func.name, func)]

execute(stmt, env) ==
    CASE stmt.k = "FunctionDef" -> defineFunction(env, stmt)
      [] stmt.k = "Assignment" -> executeAssignment(stmt, env)
      [] stmt.k = "Print" ->
            The({IF Failed(value.env) THEN value.env
                 ELSE [value.env EXCEPT !.output = Append(@, value.v)] :
                 value \in {evalExpr(stmt.value, env)}})
      [] stmt.k = "IfStatement" ->
            The({IF Failed(cond.env) THEN cond.env
                 ELSE executeAll(IF cond.v.i # 0 THEN stmt.thenBranch ELSE stmt.elseBranch,
                               1, cond.env) :
                 cond \in {evalExpr(stmt.condition, env)}})
      [] stmt.k = "ExprStatement" -> evalExpr(stmt.expr, env).env
      [] stmt.k = "WhileStatement" -> whileLoop(stmt, env)
      [] stmt.k = "ForStatement" ->
            IF stmt.initializer = NULL THEN forLoop(stmt, env)
            ELSE The({IF Failed(init) THEN init
                      ELSE forLoop(stmt, init) :
                      init \in {execute(stmt.initializer, env)}})
      [] stmt.k = "ArrayAssignment" -> arrayAssign(stmt, env)
      [] stmt.k = "ClassDef" -> [env EXCEPT !.class_defs = Put(@, stmt.name, stmt)]
      [] stmt.k = "ObjectInstantiation" -> instantiate(stmt, env)
      [] OTHER -> Throw(env, "Unsupported statement")


(***************************************************************************)
(* run: three passes over the top-level statements, one statement a step   *)
(***************************************************************************)
isDefaultObject(stmt, classes) ==
    stmt.k = "Assignment" /\ stmt.type \in DOMAIN classes /\ stmt.value = NULL

\* the statement the next step hands to execute, if it hands one
Current == statements[idx]
Executing ==
    /\ pass \in {1, 2, 3}
    /\ \/ pass = 1 /\ Current.k = "ClassDef"
       \/ pass = 2 /\ isDefaultObject(Current, class_defs)
       \/ pass = 3 /\ Current.k # "ClassDef" /\ ~isDefaultObject(Current, class_defs)

\* the environment after this iteration of the loop of the current pass
StepEnv == IF Executing THEN execute(Current, Env) ELSE Env

Advance(env) ==
    /\ variables_stack' = env.variables_stack
    /\ float_variables_stack' = env.float_variables_stack
    /\ char_variables_stack' = env.char_variables_stack
    /\ string_variables_stack' = env.string_variables_stack
    /\ functions' = env.functions
    /\ class_defs' = env.class_defs
    /\ objects' = env.objects
    /\ object_arrays' = env.object_arrays
    /\ int_arrays' = env.int_arrays
    /\ output' = env.output
    /\ error' = env.error
    /\ stdin' = env.stdin
    /\ statements' = statements
    /\ UNCHANGED <<parser, lexer, loader>>
    /\ IF Failed(env) THEN pass' = 0 /\ idx' = idx
       ELSE IF idx < Len(statements) THEN pass' = pass /\ idx' = idx + 1
       ELSE pass' = (IF pass = 3 THEN 0 ELSE pass + 1) /\ idx' = 1

FirstPass == pass = 1 /\ Advance(StepEnv)
SecondPass == pass = 2 /\ Advance(StepEnv)
ThirdPass == pass = 3 /\ Advance(StepEnv)

(***************************************************************************)
(* Programs: the statement lists run is started on                         *)
(***************************************************************************)
\* shorthands for source text
V(n) == Variable(n)
Call(f, args) == ExprStatement(CallExpr(f, args))
Bin(l, o, r) == BinaryExpr(l, o, r)
\* lhs = expr;  as parseStatement builds it
Assign(lhs, expr) == parseAssignmentTarget(lhs, expr)
\* T n = expr;
Declare(type, n, expr) == Assignment(n, expr, type)
\* C x;  and  C x[size];
DefaultObject(cls, n) == Assignment(n, NULL, cls)
ObjectArray(cls, n, size) == Assignment(n, size, cls \o "[]")

\* C x;   C x();   C x(args);  as parseStatement builds them: the arguments
\* read between the parentheses, if there are parentheses, and an
\* ObjectInstantiation only when the argument list is not empty
parseInstantiation_never(typeName, varName, parens, arguments) ==
    Assignment(varName, NULL, typeName)
parseInstantiation(typeName, varName, parens, arguments) ==
    LET args == IF parens THEN arguments ELSE << >>
    IN IF args # << >> THEN ObjectInstantiation(typeName, varName, args)
       ELSE Assignment(varName, NULL, typeName)

\* one literal of each kind: 5, 2.5, 'A', true, "hi"
Literals == {Number(5), FloatLiteral(25), CharLiteral(65), BoolLiteral(TRUE),
             StringLiteral("hi")}

\* scenario "Scoped integers" and its variations: a function that assigns
\* an integer to a name the caller's frame holds
ScopePrograms ==
    UNION {
      {<<Declare("int", n, Number(v1)),
         PrintStmt(V(n)),
         FunctionDef("t", << >>, <<Assignment(n, e2, ty), PrintStmt(V(n))>>),
         Call("t", << >>),
         PrintStmt(V(n))>> :
          v1 \in {100, 5}, ty \in {"int", ""},
          e2 \in {Number(42), Bin(V(n), "PLUS", Number(1)), BoolLiteral(TRUE)}} :
      n \in {"x", "y"}}
    \cup
    \* the caller is itself a function: f holds x, g assigns x, f reads x
    {<<Declare("int", "x", Number(100)),
       FunctionDef("g", params, <<Assignment("x", Number(7), ty), PrintStmt(V("x"))>>),
       FunctionDef("f", << >>, <<Declare("int", "x", Number(42)),
                                 Call("g", args), PrintStmt(V("x"))>>),
       Call("f", << >>),
       PrintStmt(V("x"))>> :
        ty \in {"int", ""},
        params \in {<< >>}, args \in {<< >>}}
    \cup
    \* the parameter has the caller's name
    {<<Declare("int", "x", Number(100)),
       FunctionDef("g", <<"x">>, <<Assignment("x", Bin(V("x"), "PLUS", Number(1)), ""),
                                   PrintStmt(V("x"))>>),
       PrintStmt(CallExpr("g", <<Number(v)>>)),
       PrintStmt(V("x"))>> : v \in {1, 2}}

\* write then read of one name: every pair of literal kinds, at top level
\* and inside a function whose caller holds the name
ReadAfterWritePrograms ==
    {<<Declare(ty, "x", l1), Assign(V("x"), l2), PrintStmt(V("x"))>> :
        ty \in {"int", ""}, l1 \in Literals, l2 \in Literals}
    \cup
    {<<Declare("", "x", l1),
       FunctionDef("t", << >>, <<Assign(V("x"), l2), PrintStmt(V("x"))>>),
       Call("t", << >>)>> : l1 \in Literals, l2 \in Literals}

\* a declared type with a literal of that type: 7, 2.5, 'A', true, "hi"
TypedLiterals == {<<"int", Number(7)>>, <<"float", FloatLiteral(25)>>,
                  <<"char", CharLiteral(65)>>, <<"bool", BoolLiteral(TRUE)>>,
                  <<"string", StringLiteral("hi")>>}

\* r.m(args);
CallMethod(r, m, args) == ExprStatement(ObjectMethodCall(r, m, args))

\* scenario "Inheritance" and its variations: init assigns the field v by
\* its unqualified name; v is declared in the base class A (inherited) or in
\* B itself, and is then read by a method and by  b.v
ConstructorPrograms ==
    {<<ClassDef("A", "", IF inherited THEN <<<<tl[1], "v">>>> ELSE << >>,
                <<FunctionDef("show", << >>, <<PrintStmt(V("v"))>>)>>),
       ClassDef("B", "A", IF inherited THEN << >> ELSE <<<<tl[1], "v">>>>,
                <<FunctionDef("init", <<"x">>, <<Assign(V("v"), V("x"))>>)>>),
       ObjectInstantiation("B", "b", <<tl[2]>>),
       read>> :
        inherited \in BOOLEAN, tl \in TypedLiterals,
        read \in {CallMethod(V("b"), "show", << >>),
                  PrintStmt(ObjectMemberAccess(V("b"), "v"))}}

\* a chain A <- B <- C of classes with fields, B overriding or not a field
\* of A, and one instance of one of them made in each of the three ways
FieldChainPrograms ==
    {<<ClassDef("A", "", fa, <<FunctionDef("init", <<"x">>, << >>)>>),
       ClassDef("B", "A", fb, << >>),
       ClassDef("C", "B", <<<<"char", "c">>>>, << >>),
       inst>> :
        fa \in {<<<<"int", "a">>>>, <<<<"int", "a">>, <<"string", "s">>>>},
        fb \in {<< >>, <<<<"float", "a">>>>, <<<<"int", "b">>>>},
        inst \in UNION {{DefaultObject(cls, "p"),
                         ObjectInstantiation(cls, "p", <<Number(1)>>),
                         ObjectArray(cls, "p", Number(2))} : cls \in {"A", "B", "C"}}}

\* the method m of class cls: it prints the name of the class that defines it
TaggedMethod(cls) == FunctionDef("m", << >>, <<PrintStmt(StringLiteral(cls))>>)

\* a chain A <- B <- C in which any of the classes defines m (A after
\* another method), and a call of m on an instance of one of them, held in
\* a variable or in an object array
DispatchPrograms ==
    {<<ClassDef("A", "", << >>,
                <<FunctionDef("show", << >>, <<PrintStmt(StringLiteral("show"))>>)>>
                    \o (IF "A" \in definers THEN <<TaggedMethod("A")>> ELSE << >>)),
       ClassDef("B", "A", << >>,
                IF "B" \in definers THEN <<TaggedMethod("B")>> ELSE << >>),
       ClassDef("C", "B", << >>,
                IF "C" \in definers THEN <<TaggedMethod("C")>> ELSE << >>),
       receiver[1],
       CallMethod(receiver[2], "m", << >>)>> :
        definers \in SUBSET {"A", "B", "C"},
        receiver \in UNION {{<<DefaultObject(cls, "p"), V("p")>>,
                             <<ObjectArray(cls, "q", Number(2)),
                               ArrayAccess("q", Number(1))>>} : cls \in {"A", "B", "C"}}}

\* x > 0
Positive(n) == Bin(V(n), "GREATERTHEN", Number(0))

\* bodies of f(x) that return 1: as their first statement, or inside an
\* if, a while or a  for (int i = 0; x > 0; i = i + 1)  entered when x > 0;
\* then print(99); return 0;
ReturningBodies ==
    {<<Return(Number(1)), PrintStmt(Number(99))>>}
    \cup
    {<<nested, PrintStmt(Number(99)), Return(Number(0))>> :
        nested \in {IfStatement(Positive("x"), <<Return(Number(1))>>, << >>),
                    WhileStatement(Positive("x"), <<Return(Number(1))>>),
                    ForStatement(Assign(V("i"), Number(0)), Positive("x"),
                                 Assign(V("i"), Bin(V("i"), "PLUS", Number(1))),
                                 <<Return(Number(1))>>)}}

\* print(f(arg));  for a function f, and  print(k.f(arg));  for a method f
ReturnPrograms ==
    {<<FunctionDef("f", <<"x">>, body), PrintStmt(CallExpr("f", <<Number(arg)>>))>> :
        body \in ReturningBodies, arg \in {0, 5}}
    \cup
    {<<ClassDef("D", "", << >>, <<FunctionDef("f", <<"x">>, body)>>),
       DefaultObject("D", "p"),
       PrintStmt(ObjectMethodCall(V("p"), "f", <<Number(arg)>>))>> :
        body \in ReturningBodies, arg \in {0, 5}}

\* print(f(args));  where f returns a literal of each kind or a sum, or has
\* no return, and where the argument count is or is not the parameter count
ResultPrograms ==
    {<<FunctionDef("f", params, body), PrintStmt(CallExpr("f", args))>> :
        params \in {<< >>, <<"x">>}, args \in {<< >>, <<Number(3)>>},
        body \in {<<Return(l)>> : l \in Literals \cup {Bin(Number(2), "PLUS", Number(3))}}
                    \cup {<< >>, <<Declare("int", "y", Number(4))>>}}

\* scenario "Array" and its variations:  int arr[] = {1, 2, 3};  or
\* int arr[3];  then  arr[i] = 42;  once or twice, then  print(arr[i]);
\* and, for the initialised array,  print(arr[j]);  of another element
ArrayPrograms ==
    UNION {
      {<<Declare("int", "arr", ArrayLiteral(<<Number(1), Number(2), Number(3)>>))>>
          \o writes
          \o <<PrintStmt(ArrayAccess("arr", Number(i))),
               PrintStmt(ArrayAccess("arr", Number((i + 1) % 3)))>> :
          writes \in {<<Assign(ArrayAccess("arr", Number(i)), Number(42))>>,
                      <<Assign(ArrayAccess("arr", Number(i)), Number(42)),
                        Assign(ArrayAccess("arr", Number(i)), Number(42))>>}} :
      i \in 0..2}
    \cup
    {<<Declare("int", "arr", Number(3)),
       Assign(ArrayAccess("arr", Number(i)), Number(42)),
       PrintStmt(ArrayAccess("arr", Number(i)))>> : i \in 0..2}

\* 0 - 1
MinusOne == Bin(Number(0), "MINUS", Number(1))

\* the accesses of an element of the object array p and of the array arr
\* at index e: reads, a method call, and writes as parseStatement builds them
ElementAccesses(e) ==
    {<<ClassDef("P", "", <<<<"int", "a">>>>,
                <<FunctionDef("m", << >>, <<PrintStmt(V("a"))>>)>>),
       ObjectArray("P", "p", Number(2)),
       access>> :
        access \in {PrintStmt(ArrayAccess("p", e)),
                    PrintStmt(ObjectMemberAccess(ArrayAccess("p", e), "a")),
                    CallMethod(ArrayAccess("p", e), "m", << >>),
                    Assign(ArrayAccess("p", e), Number(1)),
                    Assign(ObjectMemberAccess(ArrayAccess("p", e), "a"), Number(1))}}
    \cup
    {<<Declare("int", "arr", Number(2)), access>> :
        access \in {PrintStmt(ArrayAccess("arr", e)),
                    Assign(ArrayAccess("arr", e), Number(1))}}

\* a program the parser rejects is never run
Parses(program) == \A j \in 1..Len(program) : program[j].k # "ParseError"

\* the arrays have length 2
InRangePrograms ==
    {program \in UNION {ElementAccesses(e) : e \in {Number(0), Number(1)}} :
        Parses(program)}
OutOfRangePrograms ==
    {program \in UNION {ElementAccesses(e) : e \in {Number(2), Number(5), MinusOne}} :
        Parses(program)}

\* print(a && b);  and  print(a || b);  where evaluating b prints, reads
\* the input or throws
ShortCircuitPrograms ==
    {<<FunctionDef("t", << >>, <<PrintStmt(Number(9)), Return(Number(1))>>),
       PrintStmt(Bin(a, op, b))>> :
        op \in {"AND", "OR"},
        a \in Literals \cup {Number(0), InputExpr},
        b \in {CallExpr("t", << >>), V("w"), Bin(Number(1), "DIVISION", Number(0)),
               InputExpr, Number(0), Number(2)}}

\* print(!e);  print(-e);  and the nested  print(!!e);  print(!-e);
\* print(-!e);  print(--e);  for literal operands e
UnaryPrograms ==
    {<<PrintStmt(UnaryExpr(op, e))>> :
        op \in {"NOT", "MINUS"}, e \in Literals \cup {Number(0)}}
    \cup
    {<<PrintStmt(UnaryExpr(op1, UnaryExpr(op2, e)))>> :
        op1 \in {"NOT", "MINUS"}, op2 \in {"NOT", "MINUS"},
        e \in {Number(0), Number(5), FloatLiteral(25)}}

\* scenario "String concatenation across types" and its variations:
\* string s = l + r; print(s);  and  print(l + r);  where l or r is a string
ConcatOperands == {StringLiteral("x="), StringLiteral(""), Number(5), Number(12),
                   FloatLiteral(25), FloatLiteral(30)}
ConcatPrograms ==
    UNION {
      {<<Declare("string", "s", Bin(pair[1], "PLUS", pair[2])), PrintStmt(V("s"))>>,
       <<PrintStmt(Bin(pair[1], "PLUS", pair[2]))>>} :
      pair \in {lr \in ConcatOperands \X ConcatOperands :
                  lr[1].k = "StringLiteral" \/ lr[2].k = "StringLiteral"}}

\* the method init: it prints the field v, then 1, and assigns v
InitMethod(parameters) ==
    FunctionDef("init", parameters,
                <<PrintStmt(V("v")), PrintStmt(Number(1)), Assign(V("v"), Number(7))>>)

\* classes A <- B with the field v in B and init, of as many parameters as
\* the instantiation has arguments, in A or in B; then the instantiation
\* of B and  print(9);
InitProgram(parens, arguments) ==
    {<<ClassDef("A", "", << >>,
                IF inherited THEN <<InitMethod([j \in 1..Len(arguments) |-> "x"])>>
                ELSE << >>),
       ClassDef("B", "A", <<<<"int", "v">>>>,
                IF inherited THEN << >>
                ELSE <<InitMethod([j \in 1..Len(arguments) |-> "x"])>>),
       parseInstantiation("B", "p", parens, arguments),
       PrintStmt(Number(9))>> : inherited \in BOOLEAN}

\* B p;
PlainInstantiations == InitProgram(FALSE, << >>)
\* B p();
EmptyInstantiations == InitProgram(TRUE, << >>)
\* B p(5);
ArgumentInstantiations == InitProgram(TRUE, <<Number(5)>>)
ParenthesisedInstantiations == EmptyInstantiations \cup ArgumentInstantiations
InitPrograms == PlainInstantiations \cup ParenthesisedInstantiations

\* p[i].f
ElementField(arrName, i, f) == ObjectMemberAccess(ArrayAccess(arrName, Number(i)), f)

\* scenario "Object array" and its variations:  class P { T s; ComeAndDo
\* show(){ print(s); } }  P p[2];  p[0].s = v0;  p[1].s = v1;  and then
\* p[0].show(); p[1].show();  or  print(p[0].s); print(p[1].s);
ElementFieldPrograms ==
    {<<ClassDef("P", "", <<<<tl0[1], "s">>>>,
                <<FunctionDef("show", << >>, <<PrintStmt(V("s"))>>)>>),
       ObjectArray("P", "p", Number(2)),
       Assign(ElementField("p", 0, "s"), tl0[2]),
       Assign(ElementField("p", 1, "s"), tl1[2]),
       IF byMethod THEN CallMethod(ArrayAccess("p", Number(0)), "show", << >>)
       ELSE PrintStmt(ElementField("p", 0, "s")),
       IF byMethod THEN CallMethod(ArrayAccess("p", Number(1)), "show", << >>)
       ELSE PrintStmt(ElementField("p", 1, "s"))>> :
        tl0 \in TypedLiterals, tl1 \in TypedLiterals, byMethod \in BOOLEAN}

\* class A { int a; m() } class P : A { int c; } P p; P q[2];  and then an
\* access of a member the chain of P does not have: the field b written or
\* read, the method f called, on p and on q[0]
MissingMemberPrograms ==
    {<<ClassDef("A", "", <<<<"int", "a">>>>,
                <<FunctionDef("m", << >>, <<PrintStmt(V("a"))>>)>>),
       ClassDef("P", "A", <<<<"int", "c">>>>, << >>),
       DefaultObject("P", "p"),
       ObjectArray("P", "q", Number(2)),
       access>> :
        access \in {Assign(ObjectMemberAccess(V("p"), "b"), Number(1)),
                    Assign(ElementField("q", 0, "b"), Number(1)),
                    PrintStmt(ObjectMemberAccess(V("p"), "b")),
                    PrintStmt(ElementField("q", 0, "b")),
                    CallMethod(V("p"), "f", << >>),
                    CallMethod(ArrayAccess("q", Number(0)), "f", << >>)}}

\* ComeAndDo f(){ print(tag); }
TaggedFunction(tag) == FunctionDef("f", << >>, <<PrintStmt(Number(tag))>>)

\* every list of three of the statements: a definition of f, another
\* definition of f, the definition of g, which calls f, and the calls
\* f();  and  g();
CallOrderPrograms ==
    LET pool == {TaggedFunction(1), TaggedFunction(2),
                 FunctionDef("g", << >>, <<Call("f", << >>)>>),
                 Call("f", << >>), Call("g", << >>)}
    IN {<<s1, s2, s3>> : s1 \in pool, s2 \in pool, s3 \in pool}

\* class C { int <field>; }
ClassVersion(field) == ClassDef("C", "", <<<<"int", field>>>>, << >>)

\* every list of three of the statements: class C with the field v, class C
\* with the field w, a function f whose body is the class statement of C
\* with the field w, the call f();  and the declaration  C p;  which the
\* parser builds only after it has met a class statement of C
RegistrationPrograms ==
    LET late == FunctionDef("f", << >>, <<ClassVersion("w")>>)
        pool == {ClassVersion("v"), ClassVersion("w"), late,
                 Call("f", << >>), DefaultObject("C", "p")}
    IN {program \in {<<s1, s2, s3>> : s1 \in pool, s2 \in pool, s3 \in pool} :
          \A j \in 1..3 :
            program[j] = DefaultObject("C", "p") =>
              \E h \in 1..(j - 1) :
                program[h] \in {ClassVersion("v"), ClassVersion("w"), late}}

\* class P { T s; int c; ComeAndDo set(){ s = lit; } ComeAndDo show(){
\* print(s); } }  with the receiver  P p;  or  P p[2];  the field c set to
\* 3 from outside, and the calls of set and show on p or on p[0]; the top
\* level declares a variable s of its own (T s = lit;) or does not
WriteBackPrograms ==
    {<<ClassDef("P", "", <<<<tl[1], "s">>, <<"int", "c">>>>,
                <<FunctionDef("set", << >>, <<Assignment("s", tl[2], "")>>),
                  FunctionDef("show", << >>, <<PrintStmt(V("s"))>>)>>),
       IF element THEN ObjectArray("P", "p", Number(2)) ELSE DefaultObject("P", "p"),
       IF shadow THEN Declare(tl[1], "s", tl[2]) ELSE PrintStmt(Number(0)),
       Assign(IF element THEN ElementField("p", 0, "c")
              ELSE ObjectMemberAccess(V("p"), "c"), Number(3)),
       CallMethod(IF element THEN ArrayAccess("p", Number(0)) ELSE V("p"), "set", << >>),
       CallMethod(IF element THEN ArrayAccess("p", Number(0)) ELSE V("p"), "show", << >>),
       PrintStmt(V("s"))>> :
        tl \in TypedLiterals, element \in BOOLEAN, shadow \in BOOLEAN}

\* a second literal of each declared type
OtherLiteral(type) ==
    CASE type = "int" -> Number(3) [] type = "float" -> FloatLiteral(15)
      [] type = "char" -> CharLiteral(66) [] type = "bool" -> BoolLiteral(FALSE)
      [] OTHER -> StringLiteral("yo")

\* <type> a = ..; <type> b = ..; ComeAndDo f(<parameters>) { print(first
\* parameter); print(second parameter); }  f(a, b); print(a); print(b);
\* with the parameters (a, b) or (b, a)
ArgumentPrograms ==
    {<<Declare(tl[1], "a", tl[2]),
       Declare(tl[1], "b", OtherLiteral(tl[1])),
       FunctionDef("f", parameters,
                   <<PrintStmt(V(parameters[1])), PrintStmt(V(parameters[2]))>>),
       Call("f", <<V("a"), V("b")>>),
       PrintStmt(V("a")),
       PrintStmt(V("b"))>> :
        tl \in TypedLiterals, parameters \in {<<"a", "b">>, <<"b", "a">>}}

\* class P { <type> s; ComeAndDo set() { s = <literal>; }
\*           ComeAndDo outer() { p.set(); } }
\* ComeAndDo g() { p.set(); }  P p; p.outer(); print(p.s);
\* and the same with outer calling g(), which calls p.set()
NestedCallPrograms ==
    {<<ClassDef("P", "", <<<<tl[1], "s">>>>,
                <<FunctionDef("set", << >>, <<Assignment("s", tl[2], "")>>),
                  FunctionDef("outer", << >>,
                              <<IF direct THEN CallMethod(V("p"), "set", << >>)
                                ELSE Call("g", << >>)>>)>>),
       FunctionDef("g", << >>, <<CallMethod(V("p"), "set", << >>)>>),
       DefaultObject("P", "p"),
       CallMethod(V("p"), "outer", << >>),
       PrintStmt(ObjectMemberAccess(V("p"), "s"))>> :
        tl \in TypedLiterals, direct \in BOOLEAN}

Programs ==
    ScopePrograms \cup ReadAfterWritePrograms \cup ConstructorPrograms
        \cup FieldChainPrograms \cup DispatchPrograms \cup ReturnPrograms
        \cup ResultPrograms \cup ArrayPrograms \cup InRangePrograms
        \cup OutOfRangePrograms \cup ShortCircuitPrograms \cup UnaryPrograms
        \cup ConcatPrograms \cup InitPrograms \cup ElementFieldPrograms
        \cup MissingMemberPrograms \cup CallOrderPrograms
        \cup RegistrationPrograms \cup WriteBackPrograms \cup ArgumentPrograms
        \cup NestedCallPrograms

Init ==
    /\ statements \in Programs
    /\ pass = 1
    /\ idx = 1
    /\ variables_stack = InitialEnv.variables_stack
    /\ float_variables_stack = InitialEnv.float_variables_stack
    /\ char_variables_stack = InitialEnv.char_variables_stack
    /\ string_variables_stack = InitialEnv.string_variables_stack
    /\ functions = InitialEnv.functions
    /\ class_defs = InitialEnv.class_defs
    /\ objects = InitialEnv.objects
    /\ object_arrays = InitialEnv.object_arrays
    /\ int_arrays = InitialEnv.int_arrays
    /\ output = InitialEnv.output
    /\ error = InitialEnv.error
    /\ stdin = InitialEnv.stdin
    /\ parser = NoParser
    /\ lexer = NoLexer
    /\ loader = NoLoader

Next == FirstPass \/ SecondPass \/ ThirdPass

Spec == Init /\ [][Next]_vars

(***************************************************************************)
(* Parser: expressions (parsePrimary, parseUnary, parseBinaryExpr), over   *)
(* the token kinds NUMBER, the operators, the parentheses and END          *)
(***************************************************************************)
\* most operators in a generated chain  operand (operator operand)*
MaxOperators == 3
\* most tokens in a generated token list of any shape
MaxTokens == 3

Token(type, value, line, column) ==
    [type |-> type, value |-> value, line |-> line, column |-> column]

\* the parser is not running and the evaluator has not started
RunIdle ==
    /\ statements = << >> /\ pass = 0 /\ idx = 1
    /\ variables_stack = InitialEnv.variables_stack
    /\ float_variables_stack = InitialEnv.float_variables_stack
    /\ char_variables_stack = InitialEnv.char_variables_stack
    /\ string_variables_stack = InitialEnv.string_variables_stack
    /\ functions = InitialEnv.functions
    /\ class_defs = InitialEnv.class_defs
    /\ objects = InitialEnv.objects
    /\ object_arrays = InitialEnv.object_arrays
    /\ int_arrays = InitialEnv.int_arrays
    /\ output = InitialEnv.output
    /\ error = InitialEnv.error
    /\ stdin = InitialEnv.stdin

errorMsg(msg, token) ==
    msg \o " at line " \o to_string(token.line) \o ", column " \o to_string(token.column)

\* std::stoi on a one-digit numeral
stoi(str) == CHOOSE n \in 0..9 : Digit(n) = str

getPrecedence(type) ==
    CASE type \in {"MULTIPLICATION", "DIVISION"} -> 4
      [] type \in {"PLUS", "MINUS"} -> 3
      [] type \in {"GREATERTHEN", "LESSTHEN", "EQUALTO", "NOTEQUALTO"} -> 2
      [] type = "AND" -> 1
      [] type = "OR" -> 0
      [] type = "NOT" -> 5
      [] OTHER -> -1

\* "parseBinaryExpr(prec + 1)": the threshold for the right operand
nextMinPrec_same(prec) == prec
nextMinPrec(prec) == prec + 1

\* the result of a parse function: the node, the parser's position after
\* it, and the message of the exception if it threw
Parsed(expr, current) == [expr |-> expr, current |-> current, error |-> ""]
ParseFailure(msg, current) == [expr |-> NULL, current |-> current, error |-> msg]

\* tokens[current], current counting from 0
peek(toks, current) == toks[current + 1]

RECURSIVE parsePrimary(_, _)
RECURSIVE parseUnary(_, _)
RECURSIVE parseBinaryExpr(_, _, _)
RECURSIVE binaryLoop(_, _, _)

parsePrimary(toks, current) ==
    CASE peek(toks, current).type = "NUMBER" ->
            Parsed(Number(stoi(peek(toks, current).value)), current + 1)
      [] peek(toks, current).type = "LPAREN" ->
            The({IF inner.error # "" THEN inner
                 ELSE IF peek(toks, inner.current).type # "RPAREN"
                 THEN ParseFailure(errorMsg("Expected ')' after expression",
                                            peek(toks, inner.current)), inner.current)
                 ELSE Parsed(inner.expr, inner.current + 1) :
                 inner \in {parseBinaryExpr(toks, current + 1, 0)}})
      \* an identifier that no index, member or argument list follows
      [] peek(toks, current).type = "IDENTIFIER"
           /\ peek(toks, current + 1).type \notin {"LBRACKET", "DOT", "LPAREN"} ->
            Parsed(Variable(peek(toks, current).value), current + 1)
      [] OTHER ->
            ParseFailure(errorMsg("Unexpected token in expression: '"
                                      \o peek(toks, current).value \o "'",
                                  peek(toks, current)), current + 1)

parseUnary(toks, current) ==
    IF peek(toks, current).type \in {"NOT", "MINUS"}
    THEN The({IF operand.error # "" THEN operand
              ELSE Parsed(UnaryExpr(peek(toks, current).type, operand.expr),
                          operand.current) :
              operand \in {parseUnary(toks, current + 1)}})
    ELSE parsePrimary(toks, current)

\* the loop of parseBinaryExpr, left being what is parsed so far
binaryLoop(toks, left, minPrec) ==
    IF getPrecedence(peek(toks, left.current).type) < minPrec THEN left
    ELSE The({IF right.error # "" THEN right
              ELSE binaryLoop(toks,
                       Parsed(BinaryExpr(left.expr, peek(toks, left.current).type,
                                         right.expr), right.current),
                       minPrec) :
              right \in {parseBinaryExpr(toks, left.current + 1,
                             nextMinPrec(getPrecedence(peek(toks, left.current).type)))}})

parseBinaryExpr(toks, current, minPrec) ==
    The({IF left.error # "" THEN left
         ELSE binaryLoop(toks, left, minPrec) :
         left \in {parseUnary(toks, current)}})

parseExpression(toks, current) == parseBinaryExpr(toks, current, 0)

\* parse of one expression from the first token
ParseExpression ==
    /\ ~parser.done
    /\ \E r \in {parseExpression(parser.tokens, 0)} :
          parser' = [parser EXCEPT !.current = r.current, !.expr = r.expr,
                                   !.error = r.error, !.done = TRUE]
    /\ UNCHANGED <<runVars, lexer, loader>>

\* the binary operators, ! and the parentheses, and the numeral 7
BinaryOperators ==
    {<<"PLUS", "+">>, <<"MINUS", "-">>, <<"MULTIPLICATION", "*">>,
     <<"DIVISION", "/">>, <<"GREATERTHEN", ">">>, <<"LESSTHEN", "<">>,
     <<"EQUALTO", "==">>, <<"NOTEQUALTO", "!=">>, <<"AND", "&&">>, <<"OR", "||">>}
Symbols ==
    BinaryOperators \cup {<<"NOT", "!">>, <<"LPAREN", "(">>, <<"RPAREN", ")">>,
                          <<"NUMBER", "7">>}

\* the token list of a list of (type, value) pairs, END appended, as the
\* lexer numbers a one-line source
TokensOf(symbols) ==
    [j \in 1..(Len(symbols) + 1) |->
        IF j <= Len(symbols) THEN Token(symbols[j][1], symbols[j][2], 1, j)
        ELSE Token("END", "", 1, j)]

\* 1 op 2 op 3 ...  after an optional ! or -
ChainOf(lead, ops) ==
    lead \o [j \in 1..(2 * Len(ops) + 1) |->
                IF j % 2 = 1 THEN <<"NUMBER", Digit((j + 1) \div 2)>>
                ELSE ops[j \div 2]]
Chains ==
    UNION {{TokensOf(ChainOf(lead, ops)) :
                lead \in {<< >>, <<<<"NOT", "!">>>>, <<<<"MINUS", "-">>>>},
                ops \in [1..n -> BinaryOperators]} : n \in 1..MaxOperators}
\* every list of at most MaxTokens symbols
TokenLists ==
    UNION {{TokensOf(symbols) : symbols \in [1..n -> Symbols]} : n \in 1..MaxTokens}

ParseInit ==
    /\ RunIdle
    /\ parser \in {[tokens |-> toks, current |-> 0, expr |-> NULL,
                    statements |-> << >>, g_class_names |-> {}, error |-> "",
                    done |-> FALSE] : toks \in Chains \cup TokenLists}
    /\ lexer = NoLexer
    /\ loader = NoLoader

ParseNext == ParseExpression

ParseSpec == ParseInit /\ [][ParseNext]_vars

(***************************************************************************)
(* Parser: statements.  parse is called on one token list after another;   *)
(* g_class_names is the set the class statements of every call have added *)
(* to.  The token lists hold class statements with fields, declarations    *)
(* of objects and object arrays, assignments and expression statements.    *)
(***************************************************************************)
\* most statements in a generated token list
MaxStatements == 2

RECURSIVE assignableLoop(_, _, _)
\* the loop of parseAssignable: left is the target so far, name the array
\* name an index would take
assignableLoop(toks, left, name) ==
    IF peek(toks, left.current).type = "LBRACKET"
    THEN The({IF index.error # "" THEN index
              ELSE IF peek(toks, index.current).type # "RBRACKET"
              THEN ParseFailure(errorMsg("Expected ']' after array index",
                                         peek(toks, index.current)), index.current)
              ELSE assignableLoop(toks, Parsed(ArrayAccess(name, index.expr),
                                               index.current + 1), "") :
              index \in {parseExpression(toks, left.current + 1)}})
    ELSE IF peek(toks, left.current).type = "DOT"
    THEN IF peek(toks, left.current + 1).type # "IDENTIFIER"
         THEN ParseFailure(errorMsg("Expected member name after '.'",
                                    peek(toks, left.current + 1)), left.current + 1)
         ELSE assignableLoop(toks,
                  Parsed(ObjectMemberAccess(left.expr,
                                            peek(toks, left.current + 1).value),
                         left.current + 2), name)
    ELSE left

parseAssignable(toks, current) ==
    IF peek(toks, current).type = "IDENTIFIER"
    THEN assignableLoop(toks, Parsed(Variable(peek(toks, current).value), current + 1),
                        peek(toks, current).value)
    ELSE ParseFailure(errorMsg("Invalid assignment target", peek(toks, current)), current)

\* the type keywords of a field and the type string of each
fieldType(type) ==
    CASE type = "INT" -> "int" [] type = "FLOAT" -> "float" [] type = "CHAR" -> "char"
      [] type = "BOOL" -> "bool" [] type = "STRING_TYPE" -> "string" [] OTHER -> ""

RECURSIVE classBody(_, _, _)
\* the loop of parseClass over the body, for bodies that hold fields only:
\* the fields, and the position of the closing brace
classBody(toks, current, fields) ==
    IF peek(toks, current).type = "RBRACE" THEN Parsed(fields, current)
    ELSE IF fieldType(peek(toks, current).type) # ""
    THEN IF peek(toks, current + 1).type # "IDENTIFIER"
         THEN ParseFailure(errorMsg("Expected field name after type in class",
                                    peek(toks, current + 1)), current + 1)
         ELSE IF peek(toks, current + 2).type # "SEMICOLON"
         THEN ParseFailure(errorMsg("Expected ';' after field declaration in class",
                                    peek(toks, current + 2)), current + 2)
         ELSE classBody(toks, current + 3,
                        Append(fields, <<fieldType(peek(toks, current).type),
                                         peek(toks, current + 1).value>>))
    ELSE ParseFailure(errorMsg("Unexpected token in class body", peek(toks, current)),
                      current)

\* parseClass, current being the position after the keyword
parseClass(toks, current) ==
    IF peek(toks, current).type # "IDENTIFIER"
    THEN ParseFailure(errorMsg("Expected class name after 'class'", peek(toks, current)),
                      current)
    ELSE IF peek(toks, current + 1).type = "COLON"
            /\ peek(toks, current + 2).type # "IDENTIFIER"
    THEN ParseFailure(errorMsg("Expected base class name after ':'",
                               peek(toks, current + 2)), current + 2)
    ELSE The({IF peek(toks, open).type # "LBRACE"
              THEN ParseFailure(errorMsg("Expected '{' after class name",
                                         peek(toks, open)), open)
              ELSE The({IF body.error # "" THEN body
                        ELSE Parsed(ClassDef(peek(toks, current).value,
                                        IF open = current + 1 THEN ""
                                        ELSE peek(toks, current + 2).value,
                                        body.expr, << >>),
                                    body.current + 1) :
                        body \in {classBody(toks, open + 1, << >>)}}) :
              open \in {IF peek(toks, current + 1).type = "COLON"
                        THEN current + 3 ELSE current + 1}})

RECURSIVE argumentList(_, _, _)
\* "do { args.push_back(parseExpression()); } while (match(COMMA))" and the
\* closing parenthesis
argumentList(toks, current, args) ==
    The({IF arg.error # "" THEN arg
         ELSE IF peek(toks, arg.current).type = "COMMA"
         THEN argumentList(toks, arg.current + 1, Append(args, arg.expr))
         ELSE IF peek(toks, arg.current).type # "RPAREN"
         THEN ParseFailure(errorMsg("Expected ')' after constructor arguments",
                                    peek(toks, arg.current)), arg.current)
         ELSE Parsed(Append(args, arg.expr), arg.current + 1) :
         arg \in {parseExpression(toks, current)}})

\* "Object array declaration" and the constructor and default
\* instantiation after it, current being the position of the type name
parseDeclaration(toks, current) ==
    IF peek(toks, current + 1).type # "IDENTIFIER"
    THEN ParseFailure(errorMsg("Expected variable name after class type",
                               peek(toks, current + 1)), current + 1)
    ELSE IF peek(toks, current + 2).type = "LBRACKET"
    THEN The({IF size.error # "" THEN size
              ELSE IF peek(toks, size.current).type # "RBRACKET"
              THEN ParseFailure(errorMsg("Expected ']' after array size",
                                         peek(toks, size.current)), size.current)
              ELSE IF peek(toks, size.current + 1).type # "SEMICOLON"
              THEN ParseFailure(errorMsg("Expected ';' after object array declaration",
                                         peek(toks, size.current + 1)), size.current + 1)
              ELSE Parsed(Assignment(peek(toks, current + 1).value, size.expr,
                                     peek(toks, current).value \o "[]"),
                          size.current + 2) :
              size \in {parseExpression(toks, current + 3)}})
    ELSE The({IF args.error # "" THEN args
              ELSE IF peek(toks, args.current).type # "SEMICOLON"
              THEN ParseFailure(errorMsg("Expected ';' after object declaration",
                                         peek(toks, args.current)), args.current)
              ELSE Parsed(parseInstantiation(peek(toks, current).value,
                                             peek(toks, current + 1).value,
                                             TRUE, args.expr),
                          args.current + 1) :
              args \in {IF peek(toks, current + 2).type # "LPAREN"
                        THEN Parsed(<< >>, current + 2)
                        ELSE IF peek(toks, current + 3).type = "RPAREN"
                        THEN Parsed(<< >>, current + 4)
                        ELSE argumentList(toks, current + 3, << >>)}})

\* "Fallback: expression statement"
parseExpressionStatement(toks, current) ==
    The({IF expr.error # "" THEN expr
         ELSE IF peek(toks, expr.current).type # "SEMICOLON"
         THEN ParseFailure(errorMsg("Expected ';' after expression",
                                    peek(toks, expr.current)), expr.current)
         ELSE Parsed(ExprStatement(expr.expr), expr.current + 1) :
         expr \in {parseExpression(toks, current)}})

\* "<assignable> = expr;" after the target lhs, which ASSIGN follows
parseAssignment(toks, lhs) ==
    The({IF value.error # "" THEN value
         ELSE IF peek(toks, value.current).type # "SEMICOLON"
         THEN ParseFailure(errorMsg("Expected ';' after assignment",
                                    peek(toks, value.current)), value.current)
         ELSE IF parseAssignmentTarget(lhs.expr, value.expr).k = "ParseError"
         THEN ParseFailure(parseAssignmentTarget(lhs.expr, value.expr).what,
                           value.current + 1)
         ELSE Parsed(parseAssignmentTarget(lhs.expr, value.expr), value.current + 1) :
         value \in {parseExpression(toks, lhs.current + 1)}})

\* parseStatement on a token that is CLASS or starts no keyword statement
parseStatement(toks, current, names) ==
    IF peek(toks, current).type = "CLASS" THEN parseClass(toks, current + 1)
    ELSE IF peek(toks, current).type # "IDENTIFIER"
    THEN parseExpressionStatement(toks, current)
    ELSE The({IF lhs.error # "" THEN lhs
              ELSE IF peek(toks, lhs.current).type = "ASSIGN"
              THEN parseAssignment(toks, lhs)
              \* "rewind if not assignment"
              ELSE IF peek(toks, current).value \in names
              THEN parseDeclaration(toks, current)
              ELSE parseExpressionStatement(toks, current) :
              lhs \in {parseAssignable(toks, current)}})

RECURSIVE parseLoop(_, _, _, _)
\* the loop of parse; a class statement adds its name to g_class_names as
\* soon as it is parsed, and a throw leaves the set as it is by then
parseLoop(toks, current, names, stmts) ==
    IF peek(toks, current).type = "END"
    THEN [statements |-> stmts, error |-> "", current |-> current,
          g_class_names |-> names]
    ELSE The({IF stmt.error # ""
              THEN [statements |-> << >>, error |-> stmt.error,
                    current |-> stmt.current, g_class_names |-> names]
              ELSE parseLoop(toks, stmt.current,
                             IF stmt.expr.k = "ClassDef"
                             THEN names \cup {stmt.expr.name} ELSE names,
                             Append(stmts, stmt.expr)) :
              stmt \in {parseStatement(toks, current, names)}})

parse(toks, names) == parseLoop(toks, 0, names, << >>)

\* the source of each generated statement
StatementTexts ==
    LET C == <<"IDENTIFIER", "C">>
        x == <<"IDENTIFIER", "x">>
        a == <<"IDENTIFIER", "a">>
        i == <<"IDENTIFIER", "i">>
        f == <<"IDENTIFIER", "f">>
        one == <<"NUMBER", "1">>
        zero == <<"NUMBER", "0">>
        semi == <<"SEMICOLON", ";">>
        is == <<"ASSIGN", "=">>
        lb == <<"LBRACKET", "[">>
        rb == <<"RBRACKET", "]">>
        dot == <<"DOT", ".">>
    IN {<<<<"CLASS", "class">>, C, <<"LBRACE", "{">>, <<"RBRACE", "}">>>>,
        <<<<"CLASS", "class">>, C, <<"LBRACE", "{">>, <<"INT", "int">>, x, semi,
          <<"RBRACE", "}">>>>,
        <<C, x, semi>>,
        <<C, x, <<"LPAREN", "(">>, <<"RPAREN", ")">>, semi>>,
        <<C, x, <<"LPAREN", "(">>, one, <<"COMMA", ",">>, one, <<"RPAREN", ")">>, semi>>,
        <<C, x, lb, one, rb, semi>>,
        <<x, semi>>,
        <<x, is, one, semi>>,
        <<x, dot, f, is, one, semi>>,
        <<a, lb, zero, rb, is, one, semi>>,
        <<a, lb, i, rb, is, one, semi>>,
        <<a, lb, zero, rb, dot, f, is, one, semi>>,
        <<a, lb, i, rb, dot, f, is, one, semi>>}

RECURSIVE Flatten(_)
Flatten(texts) == IF texts = << >> THEN << >> ELSE Head(texts) \o Flatten(Tail(texts))
\* the token lists of at most MaxStatements statements
TokenStreams ==
    {TokensOf(Flatten(texts)) :
       texts \in UNION {[1..n -> StatementTexts] : n \in 1..MaxStatements}}

\* one call of parse
Parse ==
    \E toks \in TokenStreams :
      \E r \in {parse(toks, parser.g_class_names)} :
        /\ parser' = [tokens |-> toks, current |-> r.current, expr |-> NULL,
                      statements |-> r.statements, g_class_names |-> r.g_class_names,
                      error |-> r.error, done |-> TRUE]
        /\ UNCHANGED <<runVars, lexer, loader>>

StatementInit ==
    /\ RunIdle
    /\ parser = [NoParser EXCEPT !.done = FALSE]
    /\ lexer = NoLexer
    /\ loader = NoLoader

StatementNext == Parse

StatementSpec == StatementInit /\ [][StatementNext]_vars

(***************************************************************************)
(* Lexer: tokenize, one iteration of its loop a step.  A source text is a  *)
(* sequence of one-character strings.                                      *)
(***************************************************************************)
\* longest source text generated
MaxInput == 3

\* <cctype> on the characters of the generated texts
isspace(c) == c \in {" ", "\t", "\n", "\r"}
isalpha(c) == c \in {"i", "f", "a", "x"}
isdigit(c) == c \in {Digit(n) : n \in 0..9}
isalnum(c) == isalpha(c) \/ isdigit(c)

\* input[k] for k <= input.length(); the character at input.length() is
\* the terminator
charAt(input, k) == IF k < Len(input) THEN input[k + 1] ELSE "\\0"

\* the number of characters from index k on up to the first that does not
\* satisfy the test named by what: the inner while loops of tokenize
RECURSIVE span(_, _, _)
span(input, k, what) ==
    IF k >= Len(input) THEN 0
    ELSE IF \/ what = "word" /\ (isalnum(input[k + 1]) \/ input[k + 1] = "_")
            \/ what = "digits" /\ isdigit(input[k + 1])
            \/ what = "string" /\ input[k + 1] # "\""
    THEN 1 + span(input, k + 1, what)
    ELSE 0

\* the characters of input from index k, n of them, as one string
RECURSIVE substr(_, _, _)
substr(input, k, n) == IF n = 0 THEN "" ELSE input[k + 1] \o substr(input, k + 1, n - 1)

\* line and col after the n characters of a string literal's body from k
RECURSIVE positionAfter(_, _, _, _, _)
positionAfter(input, k, n, line, col) ==
    IF n = 0 THEN [line |-> line, col |-> col]
    ELSE IF input[k + 1] = "\n" THEN positionAfter(input, k + 1, n - 1, line + 1, 1)
    ELSE positionAfter(input, k + 1, n - 1, line, col + 1)

\* the keyword table
wordType(id) ==
    CASE id = "if" -> "IF" [] id = "else" -> "ELSE" [] id = "return" -> "RETURN"
      [] id = "print" -> "PRINT" [] id = "int" -> "INT" [] id = "float" -> "FLOAT"
      [] id = "char" -> "CHAR" [] id = "ComeAndDo" -> "COMEANDDO"
      [] id = "while" -> "WHILE" [] id = "for" -> "FOR" [] id = "bool" -> "BOOL"
      [] id = "string" -> "STRING_TYPE" [] id = "read" -> "READ"
      [] id = "input" -> "INPUT" [] id \in {"true", "false"} -> "BOOLEAN_LITERAL"
      [] OTHER -> "IDENTIFIER"

\* the one-character cases of the operator switch
punctuation(c) ==
    CASE c = "+" -> "PLUS" [] c = "-" -> "MINUS" [] c = "*" -> "MULTIPLICATION"
      [] c = "/" -> "DIVISION" [] c = ";" -> "SEMICOLON" [] c = "(" -> "LPAREN"
      [] c = ")" -> "RPAREN" [] c = "{" -> "LBRACE" [] c = "}" -> "RBRACE"
      [] c = "[" -> "LBRACKET" [] c = "]" -> "RBRACKET" [] c = "," -> "COMMA"
      [] c = ">" -> "GREATERTHEN" [] c = "<" -> "LESSTHEN"
      [] OTHER -> ""

\* "... at line L, column C" of the lexer's messages
at(line, col) == " at line " \o to_string(line) \o ", column " \o to_string(col)

\* push_back of a token that starts where this iteration started
pushToken(lx, type, value, consumed) ==
    [lx EXCEPT !.tokens = Append(@, Token(type, value, lx.line, lx.col)),
               !.i = @ + consumed, !.col = @ + consumed]
\* a throw out of tokenize
lexThrow(lx, msg) == [lx EXCEPT !.error = msg \o at(lx.line, lx.col), !.done = TRUE]

\* the default case: the message goes to std::cerr, valid = false, and the
\* loop goes on after "i++; col++"
unknownCharacter(lx, c) ==
    [lx EXCEPT !.cerr = Append(@, "Unknown character: " \o c \o at(lx.line, lx.col)),
               !.i = @ + 1, !.col = @ + 1]

\* one iteration of "while (i < input.length())"
lexIteration(lx) ==
    LET c == lx.input[lx.i + 1]
        word == span(lx.input, lx.i, "word")
        whole == span(lx.input, lx.i, "digits")
        fraction == span(lx.input, lx.i + whole + 1, "digits")
        body == span(lx.input, lx.i + 1, "string")
    IN CASE c = "\n" -> [lx EXCEPT !.i = @ + 1, !.line = @ + 1, !.col = 1]
         [] c # "\n" /\ isspace(c) -> [lx EXCEPT !.i = @ + 1, !.col = @ + 1]
         [] isalpha(c) ->
                pushToken(lx, wordType(substr(lx.input, lx.i, word)),
                          substr(lx.input, lx.i, word), word)
         [] isdigit(c) ->
                IF charAt(lx.input, lx.i + whole) = "." /\ lx.i + whole < Len(lx.input)
                THEN pushToken(lx, "FLOAT_LITERAL",
                               substr(lx.input, lx.i, whole + 1 + fraction),
                               whole + 1 + fraction)
                ELSE pushToken(lx, "NUMBER", substr(lx.input, lx.i, whole), whole)
         [] c = "\"" ->
                IF lx.i + 1 + body >= Len(lx.input)
                THEN lexThrow(lx, "Unterminated string literal")
                ELSE [lx EXCEPT
                        !.tokens = Append(@, Token("STRING_LITERAL",
                                              substr(lx.input, lx.i + 1, body),
                                              lx.line, lx.col)),
                        !.i = @ + body + 2,
                        !.line = positionAfter(lx.input, lx.i + 1, body,
                                               lx.line, lx.col + 1).line,
                        !.col = positionAfter(lx.input, lx.i + 1, body,
                                              lx.line, lx.col + 1).col + 1]
         [] c = "'" ->
                IF lx.i + 1 < Len(lx.input) /\ charAt(lx.input, lx.i + 2) = "'"
                THEN pushToken(lx, "CHAR_LITERAL", lx.input[lx.i + 2], 3)
                ELSE lexThrow(lx, "Unterminated or invalid char literal")
         [] c = "=" ->
                IF lx.i + 1 < Len(lx.input) /\ lx.input[lx.i + 2] = "="
                THEN pushToken(lx, "EQUALTO", "==", 2)
                ELSE pushToken(lx, "ASSIGN", "=", 1)
         [] c = "!" ->
                IF lx.i + 1 < Len(lx.input) /\ lx.input[lx.i + 2] = "="
                THEN pushToken(lx, "NOTEQUALTO", "!=", 2)
                ELSE lexThrow(lx, "Unexpected token: !")
         [] OTHER ->
                IF punctuation(c) # "" THEN pushToken(lx, punctuation(c), c, 1)
                ELSE unknownCharacter(lx, c)

LexIteration ==
    /\ ~lexer.done
    /\ lexer.i < Len(lexer.input)
    /\ lexer' = lexIteration(lexer)
    /\ UNCHANGED <<runVars, parser, loader>>

\* the loop has ended: END is pushed and the tokens are returned
LexReturn ==
    /\ ~lexer.done
    /\ lexer.i >= Len(lexer.input)
    /\ lexer' = [lexer EXCEPT !.tokens = Append(@, Token("END", "", lexer.line, lexer.col)),
                              !.done = TRUE]
    /\ UNCHANGED <<runVars, parser, loader>>

\* the characters of the generated source texts
Characters == {"i", "f", "1", " ", "\n", "+", "=", "!", "\"", "'", ".", "@"}
Inputs == UNION {[1..n -> Characters] : n \in 0..MaxInput}

LexInit ==
    /\ RunIdle
    /\ parser = NoParser
    /\ lexer \in {[input |-> text, i |-> 0, line |-> 1, col |-> 1, tokens |-> << >>,
                   cerr |-> << >>, error |-> "", done |-> FALSE] : text \in Inputs}
    /\ loader = NoLoader

LexNext == LexIteration \/ LexReturn

LexSpec == LexInit /\ [][LexNext]_vars

(***************************************************************************)
(* Driver: main, processImports and parseFile.  A path is the sequence of  *)
(* its components; every path is relative to the working directory, which *)
(* std::filesystem::absolute puts in front of it.  processImports is       *)
(* recursive: loader.stack holds its activations, the innermost last.      *)
(***************************************************************************)
\* most imports in one file
MaxImports == 1
\* deepest nesting of processImports generated
MaxDepth == 5

\* the file a path names when it is opened
RECURSIVE Canonical(_, _)
Canonical(path, seen) ==
    IF path = << >> THEN seen
    ELSE IF Head(path) = "." THEN Canonical(Tail(path), seen)
    ELSE IF Head(path) = ".." /\ seen # << >>
    THEN Canonical(Tail(path), SubSeq(seen, 1, Len(seen) - 1))
    ELSE Canonical(Tail(path), Append(seen, Head(path)))

\* std::filesystem::absolute: the working directory followed by the path;
\* whether "." and ".." are resolved as well is the platform's choice
absolute(path, normalises) == IF normalises THEN Canonical(path, << >>) ELSE path

parent_path(path) == SubSeq(path, 1, Len(path) - 1)

ImportStatement(filename) == [k |-> "ImportStatement", filename |-> filename]
\* a statement that is not an import, tagged with the file it was read from
StatementOf(file) == [k |-> "Statement", file |-> file]

\* an activation of processImports
Activation(stmts, base_dir) ==
    [statements |-> stmts, base_dir |-> base_dir, pos |-> 1, result |-> << >>]

\* what parseFile returns and what it leaves in imported_files
parseFile(filepath, ld) ==
    IF absolute(filepath, ld.normalises) \in ld.imported_files
    THEN [imported |-> << >>, imported_files |-> ld.imported_files, error |-> ""]
    ELSE IF Canonical(filepath, << >>) \notin DOMAIN ld.files
    THEN [imported |-> << >>,
          imported_files |-> ld.imported_files \cup {absolute(filepath, ld.normalises)},
          error |-> "Failed to open imported file"]
    ELSE [imported |-> ld.files[Canonical(filepath, << >>)],
          imported_files |-> ld.imported_files \cup {absolute(filepath, ld.normalises)},
          error |-> ""]

\* main up to its call of processImports
Main ==
    /\ ~loader.done
    /\ loader.imported_files = {}
    /\ loader' =
         IF <<"sample.tl">> \notin DOMAIN loader.files
         THEN [loader EXCEPT !.error = "Failed to open file", !.done = TRUE]
         ELSE [loader EXCEPT
                 !.imported_files = {absolute(<<"sample.tl">>, loader.normalises)},
                 !.stack = <<Activation(loader.files[<<"sample.tl">>], <<".">>)>>]
    /\ UNCHANGED <<runVars, parser, lexer>>

\* the innermost activation and the statement its loop is at
Innermost == loader.stack[Len(loader.stack)]
AtStatement == Innermost.pos <= Len(Innermost.statements)

\* the loop of processImports at an import: parseFile, then the recursive call
ProcessImport ==
    /\ ~loader.done
    /\ loader.stack # << >>
    /\ AtStatement
    /\ Innermost.statements[Innermost.pos].k = "ImportStatement"
    /\ Len(loader.stack) < MaxDepth
    /\ \E full_path \in {Innermost.base_dir \o Innermost.statements[Innermost.pos].filename} :
         \E parsed \in {parseFile(full_path, loader)} :
           loader' =
             IF parsed.error # ""
             THEN [loader EXCEPT !.imported_files = parsed.imported_files,
                                 !.error = parsed.error, !.done = TRUE]
             ELSE [loader EXCEPT
                     !.imported_files = parsed.imported_files,
                     !.stack = Append(@, Activation(parsed.imported,
                                                    parent_path(full_path)))]
    /\ UNCHANGED <<runVars, parser, lexer>>

\* the loop of processImports at any other statement
KeepStatement ==
    /\ ~loader.done
    /\ loader.stack # << >>
    /\ AtStatement
    /\ Innermost.statements[Innermost.pos].k # "ImportStatement"
    /\ loader' = [loader EXCEPT
                    !.stack[Len(loader.stack)].result = Append(@, Innermost.statements[Innermost.pos]),
                    !.stack[Len(loader.stack)].pos = @ + 1]
    /\ UNCHANGED <<runVars, parser, lexer>>

\* "return result": to the import that made the call, or to main
ReturnResult ==
    /\ ~loader.done
    /\ loader.stack # << >>
    /\ ~AtStatement
    /\ loader' =
         IF Len(loader.stack) = 1
         THEN [loader EXCEPT !.statements = Innermost.result, !.stack = << >>, !.done = TRUE]
         ELSE [loader EXCEPT
                 !.stack = [SubSeq(@, 1, Len(@) - 1) EXCEPT
                              ![Len(loader.stack) - 1].result = @ \o Innermost.result,
                              ![Len(loader.stack) - 1].pos = @ + 1]]
    /\ UNCHANGED <<runVars, parser, lexer>>

\* the files of the generated directories, and the file names an import of
\* a file can spell: relative to the directory of the importing file
Files == {<<"sample.tl">>, <<"a.tl">>, <<"d", "b.tl">>}
Targets == Files \cup {<<"missing.tl">>}
RECURSIVE Relative(_, _)
Relative(dir, target) ==
    IF dir = << >> THEN target ELSE <<"..">> \o Relative(Tail(dir), target)
FileNames(file) ==
    {Relative(parent_path(file), target) : target \in Targets} \cup
    {<<file[Len(file)]>>}
Contents(file) ==
    {[i \in 1..Len(names) |-> ImportStatement(names[i])] \o <<StatementOf(file)>> :
       names \in UNION {[1..n -> FileNames(file)] : n \in 0..MaxImports}}
FileSystems == {fs \in [Files -> UNION {Contents(f) : f \in Files}] :
                  \A f \in Files : fs[f] \in Contents(f)}

ImportInit ==
    /\ RunIdle
    /\ parser = NoParser
    /\ lexer = NoLexer
    /\ loader \in {[files |-> fs, normalises |-> n, imported_files |-> {},
                    stack |-> << >>, statements |-> << >>, error |-> "",
                    done |-> FALSE] : fs \in FileSystems, n \in BOOLEAN}

ImportNext == Main \/ ProcessImport \/ KeepStatement \/ ReturnResult

ImportSpec == ImportInit /\ [][ImportNext]_vars

(***************************************************************************)
(* Scopes: the stores of the float, char and string stacks, applied at     *)
(* every depth of call a run can be at                                     *)
(***************************************************************************)
\* deepest nesting of scopes generated
MaxFrames == 3

\* the interpreter's state becomes env; the run loop stands still
Become(env) ==
    /\ variables_stack' = env.variables_stack
    /\ float_variables_stack' = env.float_variables_stack
    /\ char_variables_stack' = env.char_variables_stack
    /\ string_variables_stack' = env.string_variables_stack
    /\ functions' = env.functions
    /\ class_defs' = env.class_defs
    /\ objects' = env.objects
    /\ object_arrays' = env.object_arrays
    /\ int_arrays' = env.int_arrays
    /\ output' = env.output
    /\ error' = env.error
    /\ stdin' = env.stdin
    /\ UNCHANGED <<statements, pass, idx, parser, lexer, loader>>

\* "Push new local scopes" and "Pop local scopes" of a call
PushScopes ==
    /\ Len(variables_stack) < MaxFrames
    /\ Become(pushScopes(Env))
PopScopes ==
    /\ Len(variables_stack) > 1
    /\ Become(popScopes(Env))

\* the names written, and the values: a value tells the depth it was
\* written at
ScopeNames == {"x"}
Depth == Len(variables_stack)
FloatAt(depth) == FloatV(depth * FloatUnit)
CharAt(depth) == CharV(depth)
StringAt(depth) == StringV(to_string(depth))
IntAt(depth) == IntV(depth)

\* a store of val under name, in the stack of val's type
Write(name, val) == Become(storeByTag(Env, name, val))
WriteFloat == \E name \in ScopeNames : Write(name, FloatAt(Depth))
WriteChar == \E name \in ScopeNames : Write(name, CharAt(Depth))
WriteString == \E name \in ScopeNames : Write(name, StringAt(Depth))
WriteInt == \E name \in ScopeNames : Write(name, IntAt(Depth))

\* print(name); as the first output of the run
PrintVariable ==
    /\ output = << >>
    /\ error = ""
    /\ \E name \in ScopeNames : Become(execute(PrintStmt(Variable(name)), Env))

ScopeInit ==
    /\ RunIdle
    /\ parser = NoParser
    /\ lexer = NoLexer
    /\ loader = NoLoader

ScopeNext ==
    \/ PushScopes \/ PopScopes
    \/ WriteFloat \/ WriteChar \/ WriteString \/ WriteInt
    \/ PrintVariable

ScopeSpec == ScopeInit /\ [][ScopeNext]_vars

(***************************************************************************)
(* Properties                                                              *)
(***************************************************************************)
Last(seq) == seq[Len(seq)]
\* the statement the step that led to this state executed
Previous == statements[idx - 1]
\* a read of name n (evalExpr on Variable n)
ReadOf(env, n) == evalVariable(env, n).v

\* the function g of the program assigns an integer to x while its caller f
\* holds x = 42 and the global frame holds x = 100
NestedCallerProgram ==
    /\ Len(statements) = 5
    /\ statements[3].k = "FunctionDef" /\ statements[3].name = "f"
    /\ statements[2].k = "FunctionDef" /\ statements[2].name = "g"

\* C1: an integer assignment executed inside a function body writes only the
\* innermost frame: across a step that executes a call statement (or a print
\* of a call) every name bound to an integer before the step reads as the
\* same integer after it, and a caller that is itself a function reads its
\* own value after the callee assigned the name (g prints 7, f prints 42,
\* the top level prints 100).
C1_IntegerWritesStayLocal ==
    /\ [][(Executing /\ Current.k \in {"ExprStatement", "Print"} /\ error' = "")
            => \A n \in Idents :
                  hasIntVar(Env, n) => ReadOf(Env', n) = IntV(getIntVar(Env, n))]_vars
    /\ []((NestedCallerProgram /\ pass = 0)
            => error = "" /\ output = <<IntV(7), IntV(42), IntV(100)>>)

\* the call t() has returned: its body assigned 42 to x and printed it, and
\* the global frame still holds x = 100
C1_Witness ==
    /\ pass = 3 /\ idx = 5 /\ error = ""
    /\ Previous = Call("t", << >>)
    /\ functions["t"].body[1] = Assignment("x", Number(42), "int")
    /\ output = <<IntV(100), IntV(42)>>
    /\ ReadOf(Env, "x") = IntV(100)

\* the Assignment reaches one of the stores of a value under its name (the
\* typed-literal stores or the fallback store)
StoresValue(stmt) ==
    /\ stmt.k = "Assignment"
    /\ stmt.value # NULL
    /\ ~hasDot(stmt.name)
    /\ ~(stmt.type # "" /\ isObjectArrayType(stmt.type))

\* C2: immediately after an assignment statement stores v under n, a read of
\* n in the same scope returns v, whatever bindings n had before in any of
\* the four stacks.
C2_ReadAfterWrite ==
    [][(Executing /\ StoresValue(Current) /\ error' = "")
         => ReadOf(Env', Current.name) = evalExpr(Current.value, Env).v]_vars

\* C3: after  C x(args);  completes, every field that init assigned by its
\* unqualified name, declared in C or inherited, reads as the value init
\* assigned, via  x.f  and via f inside a later method call on x: the
\* programs  class A {..show(){ print(v); }} class B : A {..init(x){ v = x; }}
\* B b(arg);  followed by  b.show();  or  print(b.v);  print arg.
C3_ConstructorFieldsReadBack ==
    (statements \in ConstructorPrograms /\ pass = 0)
        => /\ error = ""
           /\ output = <<evalExpr(statements[3].arguments[1], InitialEnv).v>>

\* the Value tag of a field of the declared type
tagOfType(type) == defaultField(type).type

RECURSIVE EffectiveFields(_, _)
\* name -> declared type over the chain of class c: the fields of the base
\* chain, a field of c replacing the inherited field of the same name
EffectiveFields(classes, c) ==
    LET own == classes[c].fields
        ownTypes == [n \in {own[j][2] : j \in 1..Len(own)} |->
                        (CHOOSE j \in 1..Len(own) : own[j][2] = n)]
    IN [n \in DOMAIN ownTypes |-> own[ownTypes[n]][1]]
         @@ (IF classes[c].baseClass = "" THEN EmptyMap
             ELSE EffectiveFields(classes, classes[c].baseClass))

\* field name -> Value tag of an instance
FieldTags(inst) == [n \in DOMAIN inst.fields |-> inst.fields[n].type]
ExpectedTags(classes, c) ==
    [n \in DOMAIN EffectiveFields(classes, c) |-> tagOfType(EffectiveFields(classes, c)[n])]

\* C4: the field set of a new instance of class C, made by  C x;  by
\* C x(args);  or by  C x[n];  is the base-first merge of the inherited
\* fields and C's own fields, a field of the child replacing the base's
\* field of the same name.
C4_InstanceFieldsAreMerged ==
    [][(Executing /\ error' = "")
        => /\ isDefaultObject(Current, class_defs)
                => FieldTags(objects'[Current.name])
                      = ExpectedTags(class_defs, Current.type)
           /\ Current.k = "ObjectInstantiation"
                => FieldTags(objects'[Current.varName])
                      = ExpectedTags(class_defs, Current.className)
           /\ (Current.k = "Assignment" /\ isObjectArrayType(Current.type))
                => \A j \in 1..Len(object_arrays'[Current.name]) :
                      FieldTags(object_arrays'[Current.name][j])
                          = ExpectedTags(class_defs, elementClass(Current.type))]_vars

RECURSIVE Definer(_, _, _)
\* the most derived class of the chain of c that defines a method called
\* name, "" if no class of the chain defines one
Definer(classes, c, name) ==
    IF \E j \in 1..Len(classes[c].methods) : classes[c].methods[j].name = name
    THEN c
    ELSE IF classes[c].baseClass = "" THEN ""
    ELSE Definer(classes, classes[c].baseClass, name)

\* the class of the receiver of a method call: a variable or arr[constant]
ReceiverClass(env, obj) ==
    IF obj.k = "Variable" THEN env.objects[obj.name].className
    ELSE env.object_arrays[obj.arrayName][obj.index.value + 1].className

\* C5: a method call on a receiver of class C runs the definition of the
\* most derived class of C's chain that defines a method of that name (in
\* these programs the method of class K prints "K"); if no class of the
\* chain defines it the call fails with the method-not-found error and runs
\* nothing.
C5_MostDerivedMethodRuns ==
    [][(/\ Executing
        /\ statements \in DispatchPrograms
        /\ Current.k = "ExprStatement"
        /\ Current.expr.k = "ObjectMethodCall")
        => LET cls == ReceiverClass(Env, Current.expr.object)
               definer == Definer(class_defs, cls, Current.expr.method)
           IN IF definer = ""
              THEN /\ error' = "Method not found: " \o Current.expr.method
                                  \o " in class " \o cls
                   /\ output' = output
              ELSE /\ error' = ""
                   /\ output' = Append(output, StringV(definer))]_vars

\* m was called on an instance of C; A and B define m, C does not, and B's
\* definition ran
C5_Witness ==
    /\ statements \in DispatchPrograms
    /\ pass = 0 /\ error = ""
    /\ "p" \in DOMAIN objects /\ objects["p"].className = "C"
    /\ class_defs["C"].methods = << >>
    /\ class_defs["B"].methods = <<TaggedMethod("B")>>
    /\ Len(class_defs["A"].methods) = 2
    /\ output = <<StringV("B")>>

\* the body and the argument of the call of f in a program of ReturnPrograms
ReturnBody ==
    IF statements[1].k = "FunctionDef" THEN statements[1].body
    ELSE statements[1].methods[1].body
ReturnArgument == Last(statements).value.arguments[1].value
\* the call executes  return 1;
ReturnExecuted == ReturnBody[1].k = "Return" \/ ReturnArgument > 0

\* C6: when a return statement is executed in a function or method body, at
\* the top level of the body or nested inside an if, a while or a for, no
\* later statement of the body is executed and the call yields the value of
\* the return expression: the call prints nothing and its result, 1, is
\* what the program prints.
C6_ReturnEndsTheBody ==
    (statements \in ReturnPrograms /\ pass = 0 /\ ReturnExecuted)
        => error = "" /\ output = <<IntV(1)>>

\* C7: the result of a call is the value of the executed return expression,
\* tag and payload preserved; it is integer 0 when the body ends without a
\* return; a call whose argument count differs from the parameter count
\* fails with the arity error.
C7_CallResult ==
    [][(/\ Executing
        /\ statements \in ResultPrograms
        /\ Current.k = "Print")
        => LET call == Current.value
               func == functions[call.callee]
           IN IF Len(call.arguments) # Len(func.parameters)
              THEN /\ error' = "Argument count mismatch in call to " \o call.callee
                   /\ output' = output
              ELSE IF func.body # << >> /\ func.body[1].k = "Return"
              THEN /\ error' = ""
                   /\ output' = Append(output, evalExpr(func.body[1].value, Env).v)
              ELSE /\ error' = ""
                   /\ output' = Append(output, IntV(0))]_vars

\* C8: for a declared primitive array arr and an in-range index i, after
\* arr[i] = v;  a read of arr[i] yields v, every other element is unchanged
\* and the same write executed again changes nothing: the programs print 42
\* and then, where the array was initialised with {1, 2, 3}, the initial
\* value of the other element read.
C8_ArrayWriteThenRead ==
    (statements \in ArrayPrograms /\ pass = 0)
        => /\ error = ""
           /\ output =
                IF statements[1].value.k = "ArrayLiteral"
                THEN <<IntV(42),
                       IntV(statements[1].value.elements[
                                Last(statements).value.index.value + 1].value)>>
                ELSE <<IntV(42)>>

\* C9: a read or a write of an element of a primitive array or of an object
\* array at an index that is negative or not less than the array's length
\* fails with an error, stores nothing and leaves the arrays unchanged.
C9_OutOfRangeAccessFails ==
    [][(/\ Executing
        /\ statements \in OutOfRangePrograms
        /\ idx = Len(statements))
        => /\ error' # ""
           /\ object_arrays' = object_arrays
           /\ int_arrays' = int_arrays
           /\ variables_stack' = variables_stack]_vars

\* C10: a && b does not evaluate b when a's integer projection is 0 and
\* a || b does not evaluate b when it is not 0: the print of the expression
\* changes the environment a's evaluation left only by appending the
\* result, 0 or 1 respectively, to the output; whenever the expression
\* yields a value it is integer 0 or 1.
C10_ShortCircuit ==
    [][(/\ Executing
        /\ Current.k = "Print"
        /\ Current.value.k = "BinaryExpr"
        /\ Current.value.op \in {"AND", "OR"})
        => LET left == evalExpr(Current.value.left, Env)
           IN /\ (Current.value.op = "AND" /\ ~Failed(left.env) /\ left.v.i = 0)
                    => Env' = [left.env EXCEPT !.output = Append(@, IntV(0))]
              /\ (Current.value.op = "OR" /\ ~Failed(left.env) /\ left.v.i # 0)
                    => Env' = [left.env EXCEPT !.output = Append(@, IntV(1))]
              /\ error' = "" => Last(output') \in {IntV(0), IntV(1)}]_vars

\* print(0 && t())  was executed: t, which prints 9, did not run
C10_Witness ==
    /\ pass = 0 /\ error = ""
    /\ Len(statements) = 2
    /\ statements[2] = PrintStmt(Bin(Number(0), "AND", CallExpr("t", << >>)))
    /\ "t" \in DOMAIN functions
    /\ functions["t"].body[1] = PrintStmt(Number(9))
    /\ output = <<IntV(0)>>

\* the numeric negation of a value
Negation(v) == IF v.type = "FLOAT" THEN FloatV(0 - v.f) ELSE IntV(0 - v.i)

\* what a nest of unary operators over a literal denotes
RECURSIVE UnaryMeaning(_)
UnaryMeaning(expr) ==
    IF expr.k # "UnaryExpr" THEN evalExpr(expr, InitialEnv).v
    ELSE IF expr.op = "NOT" THEN IntV(B01(UnaryMeaning(expr.operand).i = 0))
    ELSE Negation(UnaryMeaning(expr.operand))

\* the operand under the unary operators is numeric
RECURSIVE NumericOperand(_)
NumericOperand(expr) ==
    IF expr.k = "UnaryExpr" THEN NumericOperand(expr.operand)
    ELSE expr.k \in {"Number", "FloatLiteral", "BoolLiteral"}

\* C11: unary ! yields integer 1 if and only if the operand's integer
\* projection is 0 and integer 0 otherwise, unary - yields the numeric
\* negation of the operand, and the two nest:  print  of a nest of unary
\* operators over a numeric literal prints the value the nest denotes.
C11_UnaryOperators ==
    [][(/\ Executing
        /\ statements \in UnaryPrograms
        /\ NumericOperand(Current.value))
        => /\ error' = ""
           /\ output' = <<UnaryMeaning(Current.value)>>]_vars

\* the text  std::cout  writes for a float (one decimal digit at most here)
FloatText(f) ==
    IF f % FloatUnit = 0 THEN to_string(f \div FloatUnit)
    ELSE to_string(f \div FloatUnit) \o "." \o Digit(f % FloatUnit)

\* the textual form of an operand of a concatenation
TextOf(v) ==
    CASE v.type = "STRING" -> v.s
      [] v.type = "FLOAT" -> FloatText(v.f)
      [] OTHER -> to_string(v.i)

\* C12: x + y where at least one operand is a string is the concatenation
\* of the operands' textual forms, the decimal form of an integer and the
\* default textual form of a float:  string s = l + r; print(s);  and
\* print(l + r);  print the two texts joined.
C12_StringConcatenation ==
    (statements \in ConcatPrograms /\ pass = 0)
        => LET sum == statements[1].value
           IN /\ error = ""
              /\ output = <<StringV(TextOf(evalExpr(sum.left, InitialEnv).v)
                                      \o TextOf(evalExpr(sum.right, InitialEnv).v))>>

\* C13: an instantiation that carries argument parentheses runs init, own
\* or inherited, exactly once, after the fields are default-initialised and
\* before the next statement (init prints the default 0 of v and then 1,
\* the next statement prints 9); an instantiation without parentheses never
\* runs init.
C13_InitRunsOnce ==
    /\ (statements \in ParenthesisedInstantiations /\ pass = 0)
          => error = "" /\ output = <<IntV(0), IntV(1), IntV(9)>>
    /\ (statements \in PlainInstantiations /\ pass = 0)
          => error = "" /\ output = <<IntV(9)>>

\* C13 as the code has it: an instantiation that carries at least one
\* argument runs init, own or inherited, exactly once, after the fields are
\* default-initialised and before the next statement; an instantiation
\* without arguments, with or without parentheses, never runs init.
C13_InitRunsWithArguments ==
    /\ (statements \in ArgumentInstantiations /\ pass = 0)
          => error = "" /\ output = <<IntV(0), IntV(1), IntV(9)>>
    /\ (statements \in PlainInstantiations \cup EmptyInstantiations /\ pass = 0)
          => error = "" /\ output = <<IntV(9)>>

\* B p(5);  ran the init that B inherits from A, and  print(9)  followed
C13_Witness ==
    /\ pass = 0 /\ error = ""
    /\ statements \in ArgumentInstantiations
    /\ statements[3] = ObjectInstantiation("B", "p", <<Number(5)>>)
    /\ class_defs["A"].methods # << >>
    /\ output = <<IntV(0), IntV(1), IntV(9)>>

\* C14: for an object array and an in-range constant index i, the value
\* written by  arr[i].f = v;  is what every later access to the field f of
\* element i observes, the read expression  arr[i].f  and the unqualified
\* name f inside a method invoked as  arr[i].m():  the programs print the
\* value written to element 0 and then the value written to element 1.
C14_ElementFieldWriteThenRead ==
    (statements \in ElementFieldPrograms /\ pass = 0)
        => /\ error = ""
           /\ output = <<evalExpr(statements[3].value, InitialEnv).v,
                         evalExpr(statements[4].value, InitialEnv).v>>

\* C15: a field assignment  obj.f = v;  or  arr[i].f = v;  where f is not
\* a field of the receiver, and a member read or a method call naming a
\* member the receiver's class chain does not have, fails with an error
\* and leaves the receiver's field map unchanged: no assignment adds a
\* field to an object.
C15_MissingMemberFails ==
    [][(/\ Executing
        /\ statements \in MissingMemberPrograms
        /\ idx = Len(statements))
        => /\ error' # ""
           /\ objects' = objects
           /\ object_arrays' = object_arrays]_vars

\* the definitions of the function named name that were executed before
\* the current statement, as positions in the program
DefinedBefore(name) ==
    {j \in 1..(idx - 1) : statements[j].k = "FunctionDef" /\ statements[j].name = name}
Latest(positions) == CHOOSE j \in positions : \A h \in positions : h <= j

\* what the call  f();  does once f is defined: it prints the tag of the
\* latest definition executed
CallOfF ==
    IF DefinedBefore("f") = {}
    THEN error' = "Undefined function: f" /\ output' = output
    ELSE /\ error' = ""
         /\ output' = Append(output,
                IntV(statements[Latest(DefinedBefore("f"))].body[1].value.value))

\* C16: a call of f evaluated before the statement defining f has been
\* executed fails with the undefined-function error, and once the
\* definition statement has been executed every call of f, from the top
\* level or from the body of another function, runs the definition
\* executed (the latest one, where f is defined again).
C16_CallResolvesAfterDefinition ==
    [][(/\ Executing
        /\ statements \in CallOrderPrograms
        /\ Current.k = "ExprStatement")
        => IF Current.expr.callee = "f" THEN CallOfF
           ELSE IF DefinedBefore("g") = {}
           THEN error' = "Undefined function: g" /\ output' = output
           ELSE CallOfF]_vars

\* f was called after its definition was executed, through g, which was
\* defined before f
C16_Witness ==
    /\ pass = 0 /\ error = ""
    /\ statements = <<FunctionDef("g", << >>, <<Call("f", << >>)>>),
                      TaggedFunction(1), Call("g", << >>)>>
    /\ output = <<IntV(1)>>

\* the tokens a node was parsed from, in source order: numerals by their
\* text, operators by their kind
RECURSIVE InOrder(_)
InOrder(node) ==
    CASE node.k = "Number" -> <<Digit(node.value)>>
      [] node.k = "UnaryExpr" -> <<node.op>> \o InOrder(node.operand)
      [] node.k = "BinaryExpr" ->
            InOrder(node.left) \o <<node.op>> \o InOrder(node.right)
Shape(token) == IF token.type = "NUMBER" THEN token.value ELSE token.type

\* the precedence order of the binary operators, lowest first
Level(op) ==
    CASE op = "OR" -> 0
      [] op = "AND" -> 1
      [] op \in {"EQUALTO", "NOTEQUALTO", "LESSTHEN", "GREATERTHEN"} -> 2
      [] op \in {"PLUS", "MINUS"} -> 3
      [] op \in {"MULTIPLICATION", "DIVISION"} -> 4

\* in every binary node the left operand, if it is a binary node, has an
\* operator that binds at least as tightly, and the right operand, if it is
\* a binary node, one that binds tighter
RECURSIVE Grouped(_)
Grouped(node) ==
    CASE node.k = "Number" -> TRUE
      [] node.k = "UnaryExpr" -> Grouped(node.operand)
      [] node.k = "BinaryExpr" ->
            /\ Grouped(node.left)
            /\ Grouped(node.right)
            /\ node.left.k = "BinaryExpr" => Level(node.left.op) >= Level(node.op)
            /\ node.right.k = "BinaryExpr" => Level(node.right.op) > Level(node.op)

\* the operators of the binary nodes of a tree
RECURSIVE BinaryOps(_)
BinaryOps(node) ==
    CASE node.k = "Number" -> {}
      [] node.k = "UnaryExpr" -> BinaryOps(node.operand)
      [] node.k = "BinaryExpr" ->
            {node.op} \cup BinaryOps(node.left) \cup BinaryOps(node.right)

\* C17: for a token list  operand (operator operand)*  of binary operators
\* the parser consumes the whole list and builds the AST whose tokens in
\* order are the list and in which an operator of higher precedence (from
\* lowest: ||, &&, comparison, additive, multiplicative) binds tighter and
\* operators of equal precedence group to the left; and whatever the token
\* list, an expression parsed from tokens without parentheses has its
\* binary operators grouped so.
C17_PrecedenceAndAssociativity ==
    /\ (parser.done /\ parser.tokens \in Chains)
          => /\ parser.error = ""
             /\ parser.current = Len(parser.tokens) - 1
             /\ InOrder(parser.expr) =
                  [j \in 1..(Len(parser.tokens) - 1) |-> Shape(parser.tokens[j])]
             /\ Grouped(parser.expr)
    /\ (/\ parser.done /\ parser.tokens # << >> /\ parser.error = ""
        /\ \A j \in 1..Len(parser.tokens) :
              parser.tokens[j].type \notin {"LPAREN", "RPAREN"}
        /\ "NOT" \notin BinaryOps(parser.expr))
          => /\ InOrder(parser.expr) =
                  [j \in 1..parser.current |-> Shape(parser.tokens[j])]
             /\ Grouped(parser.expr)

\* 1 - 2 - 3  was parsed as  (1 - 2) - 3
C17_Witness ==
    /\ parser.done
    /\ parser.tokens = TokensOf(ChainOf(<< >>, <<<<"MINUS", "-">>, <<"MINUS", "-">>>>))
    /\ parser.expr = BinaryExpr(BinaryExpr(Number(1), "MINUS", Number(2)),
                                "MINUS", Number(3))

\* a character that is neither white space, a letter, a digit, a quote nor
\* the first character of an operator
startsNoToken(c) ==
    /\ ~isspace(c) /\ ~isalpha(c) /\ ~isdigit(c)
    /\ c \notin {"\"", "'", "=", "!"}
    /\ punctuation(c) = ""

\* C18: when tokenize meets a character that starts no token, lexing stops
\* there with an error that carries the character's line and column: the
\* character is not skipped, nothing is added to the tokens, and no token
\* list is returned.
C18_UnknownCharacterStops ==
    [][(LexIteration /\ startsNoToken(lexer.input[lexer.i + 1])) =>
         /\ lexer'.done
         /\ lexer'.error \in {m \o lexer.input[lexer.i + 1] \o at(lexer.line, lexer.col) :
                                m \in {"Unknown character: ", "Unexpected token: "}}
         /\ lexer'.i = lexer.i
         /\ lexer'.tokens = lexer.tokens]_vars

\* the positions of the merged statement list that hold a file's statement
Occurrences(file) ==
    {i \in 1..Len(loader.statements) : loader.statements[i] = StatementOf(file)}

\* C19: whatever the files import (themselves and cycles included), the
\* statements of each file appear at most once in the merged statement
\* list: a file already recorded as imported, the main file included,
\* contributes no statements when it is met again.
C19_EachFileAtMostOnce ==
    \A file \in DOMAIN loader.files : Cardinality(Occurrences(file)) <= 1

\* the stack of a value's type, and what a store of the value puts in it
StackOf(env, val) ==
    CASE val.type = "FLOAT" -> env.float_variables_stack
      [] val.type = "CHAR" -> env.char_variables_stack
      [] val.type = "STRING" -> env.string_variables_stack
Stored(val) ==
    CASE val.type = "FLOAT" -> val.f [] val.type = "CHAR" -> val.c
      [] val.type = "STRING" -> val.s
\* the frames of a stack that hold name
Holders(stack, name) == {j \in 1..Len(stack) : name \in DOMAIN stack[j]}
\* after is before with name set to value in frame j and nothing else changed
WrittenIn(before, after, j, name, value) ==
    /\ Len(after) = Len(before)
    /\ \A h \in 1..Len(before) : h # j => after[h] = before[h]
    /\ DOMAIN after[j] = DOMAIN before[j] \cup {name}
    /\ after[j][name] = value
    /\ \A n \in DOMAIN before[j] : n # name => after[j][n] = before[j][n]
ScopeValues == UNION {{FloatAt(d), CharAt(d), StringAt(d)} : d \in 1..MaxFrames}

InnermostValue(stack, name) ==
    stack[CHOOSE j \in Holders(stack, name) : \A h \in Holders(stack, name) : h <= j][name]
\* what a read of name gives: the first of the four domains, in the order
\* integer, floating, character, string, in which some frame holds the name
FirstDomain(name) ==
    IF Holders(variables_stack, name) # {}
    THEN <<IntV(InnermostValue(variables_stack, name))>>
    ELSE IF Holders(float_variables_stack, name) # {}
    THEN <<FloatV(InnermostValue(float_variables_stack, name))>>
    ELSE IF Holders(char_variables_stack, name) # {}
    THEN <<CharV(InnermostValue(char_variables_stack, name))>>
    ELSE IF Holders(string_variables_stack, name) # {}
    THEN <<StringV(InnermostValue(string_variables_stack, name))>>
    ELSE << >>

\* C21: a read of a variable probes the domains in the order integer,
\* floating, character, string, each stack from the innermost frame outward;
\* the value is that of the first domain in which any frame holds the name,
\* and the read fails with "Undefined variable" only when no frame of any
\* domain holds it.
C21_ReadProbesInOrder ==
    [][PrintVariable =>
         \A name \in ScopeNames :
           /\ output' = FirstDomain(name)
           /\ (error' # "") = (FirstDomain(name) = << >>)
           /\ error' \in {"", "Undefined variable: " \o name}]_vars
\* a read has given the integer of the outer frame while the innermost
\* frame holds the name as a float
C21_Witness ==
    /\ Len(variables_stack) = 2
    /\ Holders(variables_stack, "x") = {1}
    /\ Holders(float_variables_stack, "x") = {2}
    /\ output = <<IntV(variables_stack[1]["x"])>>

\* the depths of the four scope stacks
Depths ==
    {Len(variables_stack), Len(float_variables_stack),
     Len(char_variables_stack), Len(string_variables_stack)}

\* C22: the four scope stacks always have the same depth, which is at least
\* 1; a statement whose calls (function, method, constructor) all completed
\* leaves every stack at the depth of the top level, the bottom frame is the
\* one that stays, and a statement that only calls leaves the integer frame
\* below the popped one as it was.
C22_ScopesBalanced ==
    /\ [](Cardinality(Depths) = 1 /\ \A d \in Depths : d >= 1)
    /\ [](error = "" => Depths = {1})
    /\ [][(Executing /\ Current.k \in {"ExprStatement", "Print", "ObjectInstantiation"}
             /\ error' = "")
            => variables_stack' = variables_stack]_vars
\* a constructor has run with arguments, has printed, and has returned to
\* the top level
C22_Witness ==
    /\ pass = 3 /\ idx > 1 /\ error = ""
    /\ Previous.k = "ObjectInstantiation"
    /\ Previous.arguments # << >>
    /\ output # << >>
    /\ Depths = {1}

\* C23: run makes three passes: every top-level class definition is
\* registered before any other statement runs, then the default object
\* declarations are instantiated, then the remaining statements run; no
\* statement is skipped by all three passes: one that the third pass leaves
\* out as a default object declaration has been instantiated.
C23_ThreePasses ==
    /\ pass \in {2, 3} =>
         \A j \in 1..Len(statements) :
           statements[j].k = "ClassDef" => statements[j].name \in DOMAIN class_defs
    /\ (pass = 3 /\ isDefaultObject(Current, class_defs)) =>
         Current.name \in DOMAIN objects

\* C25: once the class table maps a class name to a class definition, no
\* later step (a second class statement of the name at top level, a class
\* statement in a function body that a call executes) changes the
\* definition the name maps to.
C25_ClassRegisteredOnce ==
    [][\A c \in DOMAIN class_defs :
         c \in DOMAIN class_defs' /\ class_defs'[c] = class_defs[c]]_vars

\* the field map of the receiver of a method call: a variable or arr[constant]
ReceiverFields(env, obj) ==
    IF obj.k = "Variable" THEN env.objects[obj.name].fields
    ELSE env.object_arrays[obj.arrayName][obj.index.value + 1].fields
\* the step calls the method set, whose body is one assignment to the field s
CallsSet ==
    /\ Executing
    /\ Current.k = "ExprStatement"
    /\ Current.expr.k = "ObjectMethodCall"
    /\ Current.expr.method = "set"

\* C24: after a method call on a receiver (a named object or an element
\* arr[i]) has returned, every field the body assigned by its unqualified
\* name holds the assigned value in the receiver's field map, and the fields
\* the body did not assign keep the values they had before the call.
C24_FieldsWrittenBack ==
    [][(CallsSet /\ error' = "")
         => /\ ReceiverFields(Env', Current.expr.object)["s"]
                 = evalExpr(class_defs["P"].methods[1].body[1].value, InitialEnv).v
            /\ \A f \in DOMAIN ReceiverFields(Env, Current.expr.object) \ {"s"} :
                 ReceiverFields(Env', Current.expr.object)[f]
                   = ReceiverFields(Env, Current.expr.object)[f]]_vars

\* C26: two calls of parse on the same token list give the same result (the
\* same statements or the same error) whatever was parsed before them: every
\* call returns what a call on those tokens returns when nothing has been
\* parsed yet.
C26_ParseIsAFunctionOfTheTokens ==
    [][Parse =>
         /\ parser'.statements = parse(parser'.tokens, {}).statements
         /\ parser'.error = parse(parser'.tokens, {}).error]_vars

\* the assignment target of some statement of the token list has an index
\* that is a name: [ name ] occurs in the list
NameIndexed(toks) ==
    \E j \in 0..(Len(toks) - 3) :
      /\ peek(toks, j).type = "LBRACKET"
      /\ peek(toks, j + 1).type = "IDENTIFIER"
      /\ peek(toks, j + 2).type = "RBRACKET"

\* C27: parsing an assignment whose target has an array index that is not an
\* integer literal, a[i] = 1; as well as a[i].f = 1;, fails with a parse
\* error: a call of parse on a token list with such a statement ends in an
\* error and returns no Assignment for the target.
C27_NameIndexedTargetRejected ==
    [][(Parse /\ NameIndexed(parser'.tokens)) =>
         /\ parser'.error # ""
         /\ \A j \in 1..Len(parser'.statements) :
              parser'.statements[j].k = "Assignment" =>
                parser'.statements[j].name \notin {a \o "[?]" : a \in Idents}]_vars

\* the step evaluates the call f(a, b) of a program of ArgumentPrograms
CallsF ==
    /\ statements \in ArgumentPrograms
    /\ Executing
    /\ pass = 3
    /\ Current.k = "ExprStatement"

\* C28: every argument of a call is evaluated against the caller's bindings;
\* binding an earlier parameter does not change what a later argument
\* evaluates to: the body of f, which prints its first and its second
\* parameter, prints the caller's value of the first argument and the
\* caller's value of the second one.
C28_ArgumentsSeeCallerBindings ==
    [][(CallsF /\ error' = "") =>
         output' = output \o <<evalExpr(Current.expr.arguments[1], Env).v,
                               evalExpr(Current.expr.arguments[2], Env).v>>]_vars

\* the step evaluates a call whose body assigns nothing: f(a, b) of a program
\* of ArgumentPrograms, or show() of a program of WriteBackPrograms
CallsReader ==
    \/ CallsF
    \/ /\ Executing
       /\ pass = 3
       /\ statements \in WriteBackPrograms
       /\ Current.k = "ExprStatement"
       /\ Current.expr.k = "ObjectMethodCall"
       /\ Current.expr.method = "show"

\* C29: call entry writes to the pushed frames only: binding the parameters
\* and mirroring the receiver's fields changes no frame of the caller, so
\* when a call whose body assigns nothing has returned, every floating,
\* character and string variable of the caller has its value of before the
\* call.
C29_CallEntryKeepsCallerFrames ==
    [][(CallsReader /\ error' = "") =>
         /\ float_variables_stack' = float_variables_stack
         /\ char_variables_stack' = char_variables_stack
         /\ string_variables_stack' = string_variables_stack]_vars

\* the step calls outer() on p in a program of NestedCallPrograms
CallsOuter ==
    /\ statements \in NestedCallPrograms
    /\ Executing
    /\ pass = 3
    /\ Current.k = "ExprStatement"
    /\ Current.expr.k = "ObjectMethodCall"
    /\ Current.expr.method = "outer"

\* the state in which the body of outer has run, before the write-back of
\* the call: the frames pushed, the fields of p mirrored, the one statement
\* of the body executed
AfterOuterBody ==
    execute(class_defs["P"].methods[2].body[1],
            mirrorFields(pushScopes(Env), objects["p"].fields,
                         DOMAIN objects["p"].fields))

\* C30: when a method running on a receiver calls, directly or through a
\* function, another method on the same receiver, the receiver's fields hold
\* every update of the inner call after the outer method has returned (the
\* outer body assigns nothing after the inner call): a field that the inner
\* call changed has the inner call's value after the outer call.
C30_InnerUpdatesSurvive ==
    [][(CallsOuter /\ error' = "") =>
         \A fname \in DOMAIN objects["p"].fields :
           AfterOuterBody.objects["p"].fields[fname] # objects["p"].fields[fname]
             => objects'["p"].fields[fname]
                  = AfterOuterBody.objects["p"].fields[fname]]_vars

====
